---- MODULE Spec2Model ----
(***************************************************************************)
(* State-machine model of the per-camera processing core of the            *)
(* mycompany::yolov8_flow2 analytics plugin: DeviceAgent (ingress, bounded *)
(* frame queue, worker thread, track registry, fall state machine) and     *)
(* ObjectDetector (service call, normalisation, circuit breaker).          *)
(*                                                                         *)
(* Time.  Frame timestamps (int64 microseconds in the source) and the      *)
(* steady clock (milliseconds) are modelled as small integers ("ticks");   *)
(* every TTL, grace period and interval of the configuration is given in   *)
(* the same ticks.  Coordinates are exact rationals over the encoded       *)
(* image's width and height (float32 rounding is not modelled).            *)
(* UUIDs produced by UuidHelper::randomUuid() are modelled as fresh        *)
(* integers 1, 2, 3, ...                                                   *)
(***************************************************************************)
EXTENDS Integers, Sequences, FiniteSets, TLC

\* ------------------------------------------------------------------ bounds
\* number of frames the host delivers in one run of the model
MaxFrames == 3
\* largest frame timestamp the host supplies
MaxTs == 3
\* ticks of frame time per second (1'000'000 in the source)
UsPerSecond == 20
\* largest configured queue capacity, and the frames delivered against it
MaxQueueSize == 2
QueueFrames == 4
\* largest configured failure threshold, the detector calls made against it,
\* and the largest advance of the steady clock between two calls
MaxThreshold == 3
BreakerCalls == 4
MaxAdvance == 1
\* width and height of the encoded image, in pixels
EncodedWidth == 4
EncodedHeight == 4

\* ------------------------------------------------------------------ helpers
Max(a, b) == IF a >= b THEN a ELSE b
Min(a, b) == IF a <= b THEN a ELSE b

\* std::llround(n / d) for n >= 0, d > 0 (round half away from zero)
Llround(n, d) == (2 * n + d) \div (2 * d)

RECURSIVE SetToSortedSeq(_)
\* iteration order of std::set<Uuid> / std::map<Uuid, ...>: ascending
SetToSortedSeq(S) ==
    IF S = {} THEN << >>
    ELSE LET m == CHOOSE x \in S : \A y \in S : x <= y
         IN  << m >> \o SetToSortedSeq(S \ {m})

Range(s) == { s[i] : i \in 1..Len(s) }

\* the last k elements of a sequence
LastK(s, k) == IF Len(s) <= k THEN s ELSE SubSeq(s, Len(s) - k + 1, Len(s))

\* ------------------------------------------------------------------ state
VARIABLES
    m_config,                   \* DeviceAgentConfig (const member)
    m_minFrameIntervalUs,       \* sampler interval computed by the constructor
    m_lastAcceptedTimestampUs,  \* sampler state
    hostPc,                     \* position of the host thread (ingress / destructor)
    pendingJob,                 \* FrameJob built by pushUncompressedVideoFrame
    frameCount,                 \* frames delivered so far (identity of a job)
    m_queueMutex,               \* holder of m_queueMutex: "free", "host", "worker"
    m_frameQueue,               \* std::deque<FrameJob>
    m_stop,                     \* stop flag
    workerPc,                   \* position of the worker thread
    job,                        \* the worker's local FrameJob
    m_consecutiveFailures,      \* ObjectDetector circuit breaker
    m_circuitOpen,
    m_circuitRetryAt,
    clock,                      \* last reading of std::chrono::steady_clock
    m_nextSyntheticTrackId,     \* track registry
    m_syntheticTracks,
    m_trackUuidByKey,
    m_trackLastSeenUs,
    m_activeFallTracks,         \* fall state machine
    nextUuid,                   \* number of UUIDs handed out by randomUuid()
    lastRun,                    \* observation of the last processFrameJob
    fallLog,                    \* per UUID: the fall events pushed to the host, in order
    lastFallingUs,              \* per UUID: timestamp of the last frame flagging it
    failStreak,                 \* failed service calls since the breaker was last reset
    burst,                      \* jobs enqueued since the worker last dequeued
    drained,                    \* jobs dequeued since the last enqueue
    returned,                   \* value of the last pushUncompressedVideoFrame
    sampled,                    \* the last call of shouldSampleFrame: frame, timestamp, verdict
    emitted,                    \* the packets pushed so far: timestamps of the last two frames
                                \* that pushed any
    sightings,                  \* per track key: UUID and timestamp of its last sighting,
                                \* and whether the key came from the service
    stream,                     \* the host's stream when it is uniform: the spacing of its
                                \* timestamps (0: not uniform) and the timestamps accepted
    cameraB,                    \* a second DeviceAgent of the same Engine: its members
    m_lastLogAt,                \* DeviceAgent::maybeLog: the time of the last line written
    diagnostics,                \* the lines DeviceAgent::maybeLog has written to std::cerr
    mvpAgent                    \* the DeviceAgent of namespace sample_company: its members,
                                \* its two threads' positions, what the host was handed

ingressVars == << m_lastAcceptedTimestampUs, pendingJob, frameCount, returned, sampled,
                  stream, m_lastLogAt, diagnostics >>
queueVars == << m_frameQueue, m_stop >>
breakerVars == << m_consecutiveFailures, m_circuitOpen, m_circuitRetryAt, clock, failStreak >>
trackVars == << m_nextSyntheticTrackId, m_syntheticTracks, m_trackUuidByKey,
                m_trackLastSeenUs, nextUuid, sightings >>
fallVars == << m_activeFallTracks, lastRun, fallLog, lastFallingUs, emitted >>
vars == << m_config, cameraB, mvpAgent, m_minFrameIntervalUs, hostPc, m_queueMutex, workerPc, job,
           burst, drained, ingressVars, queueVars, breakerVars, trackVars, fallVars >>

\* ------------------------------------------------------------------ sampler
\* DeviceAgent::DeviceAgent: m_minFrameIntervalUs from sampleFps
MinFrameIntervalUs(cfg) ==
    IF cfg.sampleFps > 0 THEN Llround(UsPerSecond, cfg.sampleFps) ELSE 0

\* variant: a frame exactly one interval after the last accepted one is rejected
ShouldSampleFrameStrict(interval, last, timestampUs) ==
    IF interval <= 0 THEN [accept |-> TRUE, last |-> timestampUs]
    ELSE IF timestampUs <= 0 THEN [accept |-> TRUE, last |-> last]
    ELSE IF last > 0 /\ (timestampUs - last) <= interval
         THEN [accept |-> FALSE, last |-> last]
    ELSE [accept |-> TRUE, last |-> timestampUs]

\* variant: the timestamp is remembered before the test, so the interval is
\* measured from the previous frame, accepted or not
ShouldSampleFrameFromPrevious(interval, last, timestampUs) ==
    IF interval <= 0 THEN [accept |-> TRUE, last |-> timestampUs]
    ELSE IF timestampUs <= 0 THEN [accept |-> TRUE, last |-> last]
    ELSE IF last > 0 /\ (timestampUs - last) < interval
         THEN [accept |-> FALSE, last |-> timestampUs]
    ELSE [accept |-> TRUE, last |-> timestampUs]

\* DeviceAgent::shouldSampleFrame: the verdict and the new m_lastAcceptedTimestampUs
ShouldSampleFrame(interval, last, timestampUs) ==
    IF interval <= 0 THEN [accept |-> TRUE, last |-> timestampUs]
    ELSE IF timestampUs <= 0 THEN [accept |-> TRUE, last |-> last]
    ELSE IF last > 0 /\ (timestampUs - last) < interval
         THEN [accept |-> FALSE, last |-> last]
    ELSE [accept |-> TRUE, last |-> timestampUs]

\* DeviceAgent::convertFrameToBgr: TRUE iff the frame is converted.  A frame is
\* "ok" (a supported pixel format, positive width and height), "zeroSize"
\* (width or height <= 0), "unsupported" (any other pixel format) or "null"
\* (no frame at all)
ConvertFrameToBgr(kind) == kind = "ok"
\* convertFrameToBgr: TRUE iff the failed conversion calls maybeLog
ConvertFrameLogs(kind) == kind = "unsupported"

\* DeviceAgent::maybeLog at steady-clock reading `now`: whether the line is
\* written, and m_lastLogAt afterwards (never: still the clock's epoch)
MaybeLog(lastLogAt, cfg, now) ==
    IF lastLogAt.never \/ now - lastLogAt.at >= cfg.logThrottleMs
    THEN [written |-> TRUE, lastLogAt |-> [never |-> FALSE, at |-> now]]
    ELSE [written |-> FALSE, lastLogAt |-> lastLogAt]

\* ------------------------------------------------------------------ queue
\* variant: the queue is not bounded
EnqueueFrameJobNoDrop(queue, maxQueueSize, j) == Append(queue, j)

\* variant: when full, the newest queued job is dropped instead of the oldest
EnqueueFrameJobDropNewest(queue, maxQueueSize, j) ==
    LET kept == IF Len(queue) >= Max(1, maxQueueSize)
                THEN SubSeq(queue, 1, Len(queue) - 1) ELSE queue
    IN  Append(kept, j)

\* DeviceAgent::enqueueFrameJob, the deque after the drop and the push
EnqueueFrameJob(queue, maxQueueSize, j) ==
    LET kept == IF Len(queue) >= Max(1, maxQueueSize) THEN Tail(queue) ELSE queue
    IN  Append(kept, j)

\* std::condition_variable::notify_one / notify_all: a waiting worker is woken
Notify(pc) == IF pc = "waiting" THEN "lock" ELSE pc

\* ------------------------------------------------------------------ ingress
\* pushUncompressedVideoFrame up to the call of enqueueFrameJob
PushFrame(timestamps, kinds, maxFrames) ==
    /\ hostPc = "idle"
    /\ frameCount < maxFrames
    /\ \E timestampUs \in timestamps, kind \in kinds :
         LET s == ShouldSampleFrame(m_minFrameIntervalUs, m_lastAcceptedTimestampUs,
                                    timestampUs)
             log == IF kind # "null" /\ s.accept /\ ~ConvertFrameToBgr(kind)
                       /\ ConvertFrameLogs(kind)
                    THEN MaybeLog(m_lastLogAt, m_config, clock)
                    ELSE [written |-> FALSE, lastLogAt |-> m_lastLogAt]
         IN  /\ frameCount' = frameCount + 1
             /\ m_lastLogAt' = log.lastLogAt
             /\ diagnostics' = IF log.written THEN diagnostics + 1 ELSE diagnostics
             /\ sampled' = IF kind = "null" THEN sampled
                           ELSE [id |-> frameCount + 1, timestampUs |-> timestampUs,
                                 accept |-> s.accept, kind |-> kind,
                                 ordered |-> sampled.ordered
                                               /\ (sampled.id = 0
                                                     \/ sampled.timestampUs <= timestampUs)]
             /\ stream' = IF stream.spacing > 0 /\ kind # "null" /\ s.accept
                          THEN [stream EXCEPT !.accepted = @ \cup { timestampUs }]
                          ELSE stream
             /\ IF kind = "null"
                THEN /\ returned' = FALSE
                     /\ UNCHANGED << m_lastAcceptedTimestampUs, pendingJob, hostPc >>
                ELSE IF ~s.accept
                THEN /\ returned' = TRUE
                     /\ m_lastAcceptedTimestampUs' = s.last
                     /\ UNCHANGED << pendingJob, hostPc >>
                ELSE IF ~ConvertFrameToBgr(kind)
                THEN /\ returned' = TRUE
                     /\ m_lastAcceptedTimestampUs' = s.last
                     /\ UNCHANGED << pendingJob, hostPc >>
                ELSE /\ m_lastAcceptedTimestampUs' = s.last
                     /\ pendingJob' = [timestampUs |-> timestampUs, id |-> frameCount + 1]
                     /\ hostPc' = "enqueue"
                     /\ UNCHANGED returned
    /\ UNCHANGED << m_config, cameraB, mvpAgent, m_minFrameIntervalUs, m_queueMutex, workerPc, job, burst,
                    drained, queueVars, breakerVars, trackVars, fallVars >>

\* variant: enqueueFrameJob goes on without acquiring m_queueMutex
EnqueueLockSkipped ==
    /\ hostPc = "enqueue"
    /\ hostPc' = "enqueueLocked"
    /\ UNCHANGED << m_config, cameraB, mvpAgent, m_minFrameIntervalUs, m_queueMutex, workerPc, job,
                    burst, drained, ingressVars, queueVars, breakerVars, trackVars, fallVars >>

\* enqueueFrameJob: std::lock_guard acquires m_queueMutex
EnqueueLock ==
    /\ hostPc = "enqueue"
    /\ m_queueMutex = "free"
    /\ m_queueMutex' = "host"
    /\ hostPc' = "enqueueLocked"
    /\ UNCHANGED << m_config, cameraB, mvpAgent, m_minFrameIntervalUs, workerPc, job, burst, drained,
                    ingressVars, queueVars, breakerVars, trackVars, fallVars >>

\* enqueueFrameJob: drop the oldest when full, push, notify_one, unlock, return true
Enqueue ==
    /\ hostPc = "enqueueLocked"
    /\ m_frameQueue' = EnqueueFrameJob(m_frameQueue, m_config.maxQueueSize, pendingJob)
    /\ workerPc' = Notify(workerPc)
    /\ m_queueMutex' = "free"
    /\ hostPc' = "idle"
    /\ returned' = TRUE
    /\ burst' = IF drained = << >> THEN Append(burst, pendingJob.id)
                ELSE << pendingJob.id >>
    /\ drained' = << >>
    /\ UNCHANGED << m_config, cameraB, mvpAgent, m_minFrameIntervalUs, job, m_lastAcceptedTimestampUs,
                    pendingJob, frameCount, sampled, stream, m_lastLogAt, diagnostics,
                    m_stop, breakerVars, trackVars, fallVars >>

\* ~DeviceAgent: std::lock_guard acquires m_queueMutex
DtorLock ==
    /\ hostPc = "idle"
    /\ m_queueMutex = "free"
    /\ m_queueMutex' = "host"
    /\ hostPc' = "dtorLocked"
    /\ UNCHANGED << m_config, cameraB, mvpAgent, m_minFrameIntervalUs, workerPc, job, burst, drained,
                    ingressVars, queueVars, breakerVars, trackVars, fallVars >>

\* ~DeviceAgent: m_stop = true, unlock
DtorSetStop ==
    /\ hostPc = "dtorLocked"
    /\ m_stop' = TRUE
    /\ m_queueMutex' = "free"
    /\ hostPc' = "notify"
    /\ UNCHANGED << m_config, cameraB, mvpAgent, m_minFrameIntervalUs, workerPc, job, burst, drained,
                    ingressVars, m_frameQueue, breakerVars, trackVars, fallVars >>

\* variant: the destructor goes on to join without notifying the condition
DtorSkipNotify ==
    /\ hostPc = "notify"
    /\ hostPc' = "join"
    /\ UNCHANGED << m_config, cameraB, mvpAgent, m_minFrameIntervalUs, m_queueMutex, workerPc, job, burst,
                    drained, ingressVars, queueVars, breakerVars, trackVars, fallVars >>

\* ~DeviceAgent: m_queueCv.notify_all()
DtorNotifyAll ==
    /\ hostPc = "notify"
    /\ workerPc' = Notify(workerPc)
    /\ hostPc' = "join"
    /\ UNCHANGED << m_config, cameraB, mvpAgent, m_minFrameIntervalUs, m_queueMutex, job, burst, drained,
                    ingressVars, queueVars, breakerVars, trackVars, fallVars >>

\* ~DeviceAgent: m_worker.join() returns once the worker has left workerLoop
DtorJoin ==
    /\ hostPc = "join"
    /\ workerPc = "done"
    /\ hostPc' = "destroyed"
    /\ UNCHANGED << m_config, cameraB, mvpAgent, m_minFrameIntervalUs, m_queueMutex, workerPc, job, burst,
                    drained, ingressVars, queueVars, breakerVars, trackVars, fallVars >>

\* ------------------------------------------------------------------ worker loop
\* workerLoop: std::unique_lock acquires m_queueMutex (also on return from wait)
WorkerLock ==
    /\ workerPc = "lock"
    /\ m_queueMutex = "free"
    /\ m_queueMutex' = "worker"
    /\ workerPc' = "check"
    /\ UNCHANGED << m_config, cameraB, mvpAgent, m_minFrameIntervalUs, hostPc, job, burst, drained,
                    ingressVars, queueVars, breakerVars, trackVars, fallVars >>

\* m_queueCv.wait: predicate false, release the mutex and block
WorkerWait ==
    /\ workerPc = "check"
    /\ ~(m_stop \/ m_frameQueue # << >>)
    /\ m_queueMutex' = "free"
    /\ workerPc' = "waiting"
    /\ UNCHANGED << m_config, cameraB, mvpAgent, m_minFrameIntervalUs, hostPc, job, burst, drained,
                    ingressVars, queueVars, breakerVars, trackVars, fallVars >>

\* a wait may return without a notification (spurious wakeup)
WorkerSpuriousWakeup ==
    /\ workerPc = "waiting"
    /\ workerPc' = "lock"
    /\ UNCHANGED << m_config, cameraB, mvpAgent, m_minFrameIntervalUs, hostPc, m_queueMutex, job, burst,
                    drained, ingressVars, queueVars, breakerVars, trackVars, fallVars >>

\* variant: the worker leaves the loop as soon as m_stop is set
WorkerExitOnStop ==
    /\ workerPc = "check"
    /\ m_stop
    /\ m_queueMutex' = "free"
    /\ workerPc' = "done"
    /\ UNCHANGED << m_config, cameraB, mvpAgent, m_minFrameIntervalUs, hostPc, job, burst, drained,
                    ingressVars, queueVars, breakerVars, trackVars, fallVars >>

\* workerLoop: m_stop && m_frameQueue.empty() -> break
WorkerExit ==
    /\ workerPc = "check"
    /\ m_stop /\ m_frameQueue = << >>
    /\ m_queueMutex' = "free"
    /\ workerPc' = "done"
    /\ UNCHANGED << m_config, cameraB, mvpAgent, m_minFrameIntervalUs, hostPc, job, burst, drained,
                    ingressVars, queueVars, breakerVars, trackVars, fallVars >>

\* variant: the lock's scope extends over processFrameJob
WorkerDequeueKeepsLock ==
    /\ workerPc = "check"
    /\ m_frameQueue # << >>
    /\ job' = Head(m_frameQueue)
    /\ m_frameQueue' = Tail(m_frameQueue)
    /\ workerPc' = "process"
    /\ drained' = Append(drained, Head(m_frameQueue).id)
    /\ UNCHANGED << m_config, cameraB, mvpAgent, m_minFrameIntervalUs, hostPc, burst, ingressVars, m_stop,
                    m_queueMutex, breakerVars, trackVars, fallVars >>

\* variant: the worker takes the newest job (pop_back) instead of the oldest
WorkerDequeueNewest ==
    /\ workerPc = "check"
    /\ m_frameQueue # << >>
    /\ job' = m_frameQueue[Len(m_frameQueue)]
    /\ m_frameQueue' = SubSeq(m_frameQueue, 1, Len(m_frameQueue) - 1)
    /\ m_queueMutex' = "free"
    /\ workerPc' = "process"
    /\ drained' = Append(drained, m_frameQueue[Len(m_frameQueue)].id)
    /\ UNCHANGED << m_config, cameraB, mvpAgent, m_minFrameIntervalUs, hostPc, burst, ingressVars, m_stop,
                    breakerVars, trackVars, fallVars >>

\* variant: the worker copies the front job and leaves it in the queue
WorkerDequeueKeepsFront ==
    /\ workerPc = "check"
    /\ m_frameQueue # << >>
    /\ job' = Head(m_frameQueue)
    /\ m_queueMutex' = "free"
    /\ workerPc' = "process"
    /\ drained' = Append(drained, Head(m_frameQueue).id)
    /\ UNCHANGED << m_config, cameraB, mvpAgent, m_minFrameIntervalUs, hostPc, burst, ingressVars,
                    queueVars, breakerVars, trackVars, fallVars >>

\* workerLoop: take the front job, pop_front, unlock
WorkerDequeue ==
    /\ workerPc = "check"
    /\ m_frameQueue # << >>
    /\ job' = Head(m_frameQueue)
    /\ m_frameQueue' = Tail(m_frameQueue)
    /\ m_queueMutex' = "free"
    /\ workerPc' = "process"
    /\ drained' = Append(drained, Head(m_frameQueue).id)
    /\ UNCHANGED << m_config, cameraB, mvpAgent, m_minFrameIntervalUs, hostPc, burst, ingressVars, m_stop,
                    breakerVars, trackVars, fallVars >>

\* ------------------------------------------------------------------ detector client
\* the ways a service call can fail (each is thrown and caught in run())
FailureKinds == { "noResponse", "timeout", "http503", "notJson", "notArray",
                  "badField", "encodeFailed" }

\* std::optional<int64_t>
NoTrackId == [has |-> FALSE, id |-> 0]
SomeTrackId(n) == [has |-> TRUE, id |-> n]

\* parseTrackId: track_id as integer, float (val in tenths, rounded), numeric
\* string; anything else, or a parse failure, is absent
ParseTrackId(t) ==
    CASE t.kind = "int" -> SomeTrackId(t.val)
      [] t.kind = "float" ->
            SomeTrackId(IF t.val >= 0 THEN Llround(t.val, 10) ELSE 0 - Llround(0 - t.val, 10))
      [] t.kind = "string" -> SomeTrackId(t.val)
      [] OTHER -> NoTrackId

\* clamp01 on a coordinate counted in 1/unit
Clamp01(value, unit) == Max(0, Min(unit, value))

\* variant: a box reaching over the right or bottom edge is not cut back
NormalizeItemNoEdgeClip(item) ==
    LET xNorm == Clamp01(item.x, EncodedWidth)
        yNorm == Clamp01(item.y, EncodedHeight)
        wNorm == Clamp01(item.w, EncodedWidth)
        hNorm == Clamp01(item.h, EncodedHeight)
    IN  [keep |-> item.w > 0 /\ item.h > 0 /\ wNorm > 0 /\ hNorm > 0,
         detection |-> [bbox |-> [x |-> xNorm, y |-> yNorm, w |-> wNorm, h |-> hNorm],
                        fallDetected |-> item.fall_detected,
                        aiTrackId |-> ParseTrackId(item.track_id),
                        trackId |-> 0]]

\* callService, one response element: pixel box -> normalised, clamped box.
\* A box is [x, y, w, h] with x, w in 1/EncodedWidth and y, h in 1/EncodedHeight.
NormalizeItem(item) ==
    LET xNorm == Clamp01(item.x, EncodedWidth)
        yNorm == Clamp01(item.y, EncodedHeight)
        wC == Clamp01(item.w, EncodedWidth)
        hC == Clamp01(item.h, EncodedHeight)
        wNorm == IF xNorm + wC > EncodedWidth THEN Max(0, EncodedWidth - xNorm) ELSE wC
        hNorm == IF yNorm + hC > EncodedHeight THEN Max(0, EncodedHeight - yNorm) ELSE hC
    IN  [keep |-> item.w > 0 /\ item.h > 0 /\ wNorm > 0 /\ hNorm > 0,
         detection |-> [bbox |-> [x |-> xNorm, y |-> yNorm, w |-> wNorm, h |-> hNorm],
                        fallDetected |-> item.fall_detected,
                        aiTrackId |-> ParseTrackId(item.track_id),
                        trackId |-> 0]]

RECURSIVE CallService(_)
\* callService: the detections of a 200 response whose body is the array `items`
CallService(items) ==
    IF items = << >> THEN << >>
    ELSE LET n == NormalizeItem(Head(items))
         IN  (IF n.keep THEN << n.detection >> ELSE << >>) \o CallService(Tail(items))

\* variant: the threshold compared with > instead of >=
OnFailureLate(cfg, failures, open, retryAt, now) ==
    LET f == failures + 1
    IN  IF f > Max(1, cfg.circuitFailureThreshold)
        THEN [failures |-> f, open |-> TRUE, retryAt |-> now + Max(1, cfg.circuitOpenMs)]
        ELSE [failures |-> f, open |-> open, retryAt |-> retryAt]

\* variant: the failure that opens the breaker leaves m_circuitRetryAt as it was
OnFailureKeepsRetryAt(cfg, failures, open, retryAt, now) ==
    LET f == failures + 1
    IN  IF f >= Max(1, cfg.circuitFailureThreshold)
        THEN [failures |-> f, open |-> TRUE, retryAt |-> retryAt]
        ELSE [failures |-> f, open |-> open, retryAt |-> retryAt]

\* ObjectDetector::onFailure (breaker fields only; logging is not modelled)
OnFailure(cfg, failures, open, retryAt, now) ==
    LET f == failures + 1
    IN  IF f >= Max(1, cfg.circuitFailureThreshold)
        THEN [failures |-> f, open |-> TRUE, retryAt |-> now + Max(1, cfg.circuitOpenMs)]
        ELSE [failures |-> f, open |-> open, retryAt |-> retryAt]

\* variant: a success closes the breaker but keeps the counter
OnSuccessKeepsCount(failures, retryAt) ==
    [failures |-> failures, open |-> FALSE, retryAt |-> retryAt]

\* ObjectDetector::onSuccess
OnSuccess(failures, retryAt) == [failures |-> 0, open |-> FALSE, retryAt |-> retryAt]

\* variant: the open interval ends one tick early
ShortCircuitedEarlyRetry(open, retryAt, now) == open /\ now < retryAt - 1

\* ObjectDetector::run, the first test: the breaker is open and not yet due
ShortCircuited(open, retryAt, now) == open /\ now < retryAt

\* variant: a body that is not an array is taken for an empty array
ServiceCallSucceedsLenient(outcome) == outcome.kind \in { "ok", "notArray" }

\* callService returns normally (HTTP 200, a body that parses as a JSON array
\* of well-formed elements); every other outcome throws
ServiceCallSucceeds(outcome) == outcome.kind = "ok"

\* variant: an elapsed open interval does not reset the breaker
RetryDueNever(open, retryAt, now) == FALSE

\* ObjectDetector::run, the second test: the open interval has elapsed
RetryDue(open, retryAt, now) == open /\ now >= retryAt

\* ObjectDetector::run at steady-clock reading `now`, the service answering
\* `outcome`: the detections returned, whether callService ran, whether a
\* request went out, whether the call succeeded, and the breaker afterwards
Run(cfg, failures, open, retryAt, now, outcome) ==
    IF ShortCircuited(open, retryAt, now)
    THEN [detections |-> << >>, called |-> FALSE, network |-> FALSE,
          succeeded |-> FALSE,
          breaker |-> [failures |-> failures, open |-> open, retryAt |-> retryAt]]
    ELSE LET reset == RetryDue(open, retryAt, now)
             f0 == IF reset THEN 0 ELSE failures
             o0 == IF reset THEN FALSE ELSE open
         IN  IF ServiceCallSucceeds(outcome)
             THEN [detections |-> CallService(outcome.items), called |-> TRUE,
                   network |-> TRUE, succeeded |-> TRUE,
                   breaker |-> OnSuccess(f0, retryAt)]
             ELSE [detections |-> << >>, called |-> TRUE,
                   network |-> outcome.kind # "encodeFailed", succeeded |-> FALSE,
                   breaker |-> OnFailure(cfg, f0, o0, retryAt, now)]

\* ------------------------------------------------------------------ track registry
\* a map with key k set to v (std::map operator[] / emplace)
Put(f, k, v) == [x \in DOMAIN f \cup {k} |-> IF x = k THEN v ELSE f[x]]
\* a map without the keys in D (std::map::erase)
Without(f, D) == [x \in DOMAIN f \ D |-> f[x]]
EmptyMap == [x \in {} |-> 0]

\* DeviceAgent::iou as the fraction i / (u + 1e-6); a box of no area gives 0
Iou(a, b) ==
    LET ix1 == Max(a.x, b.x)
        iy1 == Max(a.y, b.y)
        ix2 == Min(a.x + a.w, b.x + b.w)
        iy2 == Min(a.y + a.h, b.y + b.h)
        intersection == Max(0, ix2 - ix1) * Max(0, iy2 - iy1)
        areaA == Max(0, a.w * a.h)
        areaB == Max(0, b.w * b.h)
    IN  IF areaA <= 0 \/ areaB <= 0 THEN [i |-> 0, u |-> 1]
        ELSE [i |-> intersection, u |-> areaA + areaB - intersection]

\* p > q for two values of Iou (the 1e-6 of the denominator kept exactly)
IouGreater(p, q) ==
    1000000 * (p.i * q.u - q.i * p.u) > EncodedWidth * EncodedHeight * (q.i - p.i)

\* overlap > iouThreshold (0.3F)
IouAboveThreshold(p) ==
    10000000 * p.i > 3000000 * p.u + 3 * EncodedWidth * EncodedHeight

RECURSIVE BestTrackLastMatch(_, _, _, _, _, _)
\* variant: `overlap > bestIou` dropped, the last track above the threshold wins
BestTrackLastMatch(keys, syn, cfg, bbox, timestampUs, best) ==
    IF keys = << >> THEN best
    ELSE LET k == Head(keys)
             overlap == Iou(syn[k].bbox, bbox)
             skip == timestampUs - syn[k].lastSeenUs > cfg.syntheticTrackTtlUs
             better == ~skip /\ IouAboveThreshold(overlap)
         IN  BestTrackLastMatch(Tail(keys), syn, cfg, bbox, timestampUs,
                                IF better THEN [id |-> k, iou |-> overlap] ELSE best)

RECURSIVE BestTrack(_, _, _, _, _, _)
\* resolveSyntheticTrackId, the loop over m_syntheticTracks in key order
BestTrack(keys, syn, cfg, bbox, timestampUs, best) ==
    IF keys = << >> THEN best
    ELSE LET k == Head(keys)
             overlap == Iou(syn[k].bbox, bbox)
             skip == timestampUs - syn[k].lastSeenUs > cfg.syntheticTrackTtlUs
             better == ~skip /\ IouAboveThreshold(overlap) /\ IouGreater(overlap, best.iou)
         IN  BestTrack(Tail(keys), syn, cfg, bbox, timestampUs,
                       IF better THEN [id |-> k, iou |-> overlap] ELSE best)

\* variant: a new track takes the counter's value but the counter is not decremented
ResolveSyntheticTrackIdKeepsCounter(reg, cfg, bbox, timestampUs) ==
    LET best == BestTrack(SetToSortedSeq(DOMAIN reg.syn), reg.syn, cfg, bbox, timestampUs,
                          [id |-> 0, iou |-> [i |-> 0, u |-> 1]])
        track == [bbox |-> bbox, lastSeenUs |-> timestampUs]
    IN  IF best.id = 0
        THEN [key |-> reg.next, reg |-> [reg EXCEPT !.syn = Put(reg.syn, reg.next, track)]]
        ELSE [key |-> best.id,
              reg |-> [reg EXCEPT !.syn = Put(reg.syn, best.id, track)]]

\* DeviceAgent::resolveSyntheticTrackId on the registry reg
ResolveSyntheticTrackId(reg, cfg, bbox, timestampUs) ==
    LET best == BestTrack(SetToSortedSeq(DOMAIN reg.syn), reg.syn, cfg, bbox, timestampUs,
                          [id |-> 0, iou |-> [i |-> 0, u |-> 1]])
        track == [bbox |-> bbox, lastSeenUs |-> timestampUs]
    IN  IF best.id = 0
        THEN [key |-> reg.next,
              reg |-> [reg EXCEPT !.next = reg.next - 1,
                                  !.syn = Put(reg.syn, reg.next, track)]]
        ELSE [key |-> best.id,
              reg |-> [reg EXCEPT !.syn = Put(reg.syn, best.id, track)]]

\* variant: the lookup is skipped, every call allocates a UUID
GetOrCreateUuidAlwaysNew(reg, key) ==
    [uuid |-> reg.nextUuid + 1,
     reg |-> [reg EXCEPT !.nextUuid = reg.nextUuid + 1,
                         !.uuidByKey = Put(reg.uuidByKey, key, reg.nextUuid + 1)]]

\* variant: a key that is not in the agent's map is looked up in the maps of
\* both agents, as if there were one process-wide static map
GetOrCreateUuidProcessWide(reg, key) ==
    LET known == [k \in DOMAIN m_trackUuidByKey \cup DOMAIN cameraB.m_trackUuidByKey |->
                    IF k \in DOMAIN m_trackUuidByKey THEN m_trackUuidByKey[k]
                    ELSE cameraB.m_trackUuidByKey[k]]
    IN  IF key \in DOMAIN reg.uuidByKey
        THEN [uuid |-> reg.uuidByKey[key], reg |-> reg]
        ELSE IF key \in DOMAIN known
        THEN [uuid |-> known[key],
              reg |-> [reg EXCEPT !.uuidByKey = Put(reg.uuidByKey, key, known[key])]]
        ELSE [uuid |-> reg.nextUuid + 1,
              reg |-> [reg EXCEPT !.nextUuid = reg.nextUuid + 1,
                                  !.uuidByKey = Put(reg.uuidByKey, key, reg.nextUuid + 1)]]

\* DeviceAgent::getOrCreateUuid
GetOrCreateUuid(reg, key) ==
    IF key \in DOMAIN reg.uuidByKey
    THEN [uuid |-> reg.uuidByKey[key], reg |-> reg]
    ELSE [uuid |-> reg.nextUuid + 1,
          reg |-> [reg EXCEPT !.nextUuid = reg.nextUuid + 1,
                              !.uuidByKey = Put(reg.uuidByKey, key, reg.nextUuid + 1)]]

RECURSIVE ResolveTrackIds(_, _, _, _)
\* DeviceAgent::resolveTrackIds: the detections with trackId set, the key each
\* one was resolved to, and the registry
ResolveTrackIds(reg, cfg, detections, timestampUs) ==
    IF detections = << >> THEN [detections |-> << >>, keys |-> << >>, reg |-> reg]
    ELSE LET d == Head(detections)
             s == IF d.aiTrackId.has
                  THEN [key |-> d.aiTrackId.id, reg |-> reg]
                  ELSE ResolveSyntheticTrackId(reg, cfg, d.bbox, timestampUs)
             g == GetOrCreateUuid(s.reg, s.key)
             seen == [g.reg EXCEPT !.lastSeen = Put(g.reg.lastSeen, s.key, timestampUs)]
             rest == ResolveTrackIds(seen, cfg, Tail(detections), timestampUs)
         IN  [detections |-> << [d EXCEPT !.trackId = g.uuid] >> \o rest.detections,
              keys |-> << s.key >> \o rest.keys,
              reg |-> rest.reg]

\* variant: an expired key leaves m_trackLastSeenUs but stays in m_trackUuidByKey
CleanupTrackStateLeaksUuid(reg, cfg, timestampUs) ==
    LET deadSyn == { k \in DOMAIN reg.syn :
                       timestampUs - reg.syn[k].lastSeenUs > cfg.syntheticTrackTtlUs }
        deadKeys == { k \in DOMAIN reg.lastSeen :
                        timestampUs - reg.lastSeen[k] > cfg.trackMapTtlUs }
    IN  [reg EXCEPT !.syn = Without(reg.syn, deadSyn),
                    !.lastSeen = Without(reg.lastSeen, deadKeys)]

\* variant: an entry is dropped as soon as its age reaches its TTL
CleanupTrackStateAtTtl(reg, cfg, timestampUs) ==
    LET deadSyn == { k \in DOMAIN reg.syn :
                       timestampUs - reg.syn[k].lastSeenUs >= cfg.syntheticTrackTtlUs }
        deadKeys == { k \in DOMAIN reg.lastSeen :
                        timestampUs - reg.lastSeen[k] >= cfg.trackMapTtlUs }
    IN  [reg EXCEPT !.syn = Without(reg.syn, deadSyn),
                    !.uuidByKey = Without(reg.uuidByKey, deadKeys),
                    !.lastSeen = Without(reg.lastSeen, deadKeys)]

\* DeviceAgent::cleanupTrackState
CleanupTrackState(reg, cfg, timestampUs) ==
    LET deadSyn == { k \in DOMAIN reg.syn :
                       timestampUs - reg.syn[k].lastSeenUs > cfg.syntheticTrackTtlUs }
        deadKeys == { k \in DOMAIN reg.lastSeen :
                        timestampUs - reg.lastSeen[k] > cfg.trackMapTtlUs }
    IN  [reg EXCEPT !.syn = Without(reg.syn, deadSyn),
                    !.uuidByKey = Without(reg.uuidByKey, deadKeys),
                    !.lastSeen = Without(reg.lastSeen, deadKeys)]

\* ------------------------------------------------------------------ metadata
RECURSIVE ObjectItems(_)
\* makeObjectPacket, the loop: clamp each box again, skip the empty ones
ObjectItems(detections) ==
    IF detections = << >> THEN << >>
    ELSE LET b == Head(detections).bbox
             x == Clamp01(b.x, EncodedWidth)
             y == Clamp01(b.y, EncodedHeight)
             w0 == Clamp01(b.w, EncodedWidth)
             h0 == Clamp01(b.h, EncodedHeight)
             w == IF x + w0 > EncodedWidth THEN Max(0, EncodedWidth - x) ELSE w0
             h == IF y + h0 > EncodedHeight THEN Max(0, EncodedHeight - y) ELSE h0
             item == [bbox |-> [x |-> x, y |-> y, w |-> w, h |-> h],
                      trackId |-> Head(detections).trackId,
                      fallDetected |-> Head(detections).fallDetected]
         IN  (IF w <= 0 \/ h <= 0 THEN << >> ELSE << item >>)
                 \o ObjectItems(Tail(detections))

\* variant: the tests for an empty list and for an empty packet are dropped
MakeObjectPacketAlways(detections, timestampUs) ==
    << [type |-> "object", timestampUs |-> timestampUs, items |-> ObjectItems(detections)] >>

\* DeviceAgent::makeObjectPacket: no packet (nullptr) or one packet
MakeObjectPacket(detections, timestampUs) ==
    LET items == ObjectItems(detections)
    IN  IF detections = << >> \/ items = << >> THEN << >>
        ELSE << [type |-> "object", timestampUs |-> timestampUs, items |-> items] >>

\* an event-metadata packet of kFallEventType
FallEvent(trackId, timestampUs, isActive) ==
    [type |-> "event", timestampUs |-> timestampUs, trackId |-> trackId,
     isActive |-> isActive]

SeenTracks(detections) == { detections[i].trackId : i \in 1..Len(detections) }
FallingTracks(detections) ==
    { detections[i].trackId : i \in { j \in 1..Len(detections) : detections[j].fallDetected } }

\* variant: a START for every flagged track, the `inserted` test dropped
StartedTracksEveryFrame(fallingTracks, active) == fallingTracks

\* makeFallEventPackets, first loop: which falling tracks get a START packet
StartedTracks(fallingTracks, active) == { t \in fallingTracks : t \notin DOMAIN active }

\* variant: seenInThisFrame dropped, a track finishes by timeout only
ToFinishByGraceOnly(active, seenTracks, fallingTracks, timestampUs, cfg) ==
    { t \in DOMAIN active :
        /\ t \notin fallingTracks
        /\ (timestampUs - active[t]) >= cfg.fallFinishGraceUs }

\* variant: the timeout compared with > instead of >=
ToFinishStrictGrace(active, seenTracks, fallingTracks, timestampUs, cfg) ==
    { t \in DOMAIN active :
        /\ t \notin fallingTracks
        /\ \/ t \in seenTracks
           \/ (timestampUs - active[t]) > cfg.fallFinishGraceUs }

\* variant: every track that is not flagged finishes at once
ToFinishNoGrace(active, seenTracks, fallingTracks, timestampUs, cfg) ==
    { t \in DOMAIN active : t \notin fallingTracks }

\* makeFallEventPackets, second loop: which active tracks are to finish
ToFinish(active, seenTracks, fallingTracks, timestampUs, cfg) ==
    { t \in DOMAIN active :
        /\ t \notin fallingTracks
        /\ \/ t \in seenTracks
           \/ (timestampUs - active[t]) >= cfg.fallFinishGraceUs }

\* variant: finished tracks are erased but their FINISH packet is not pushed
MakeFallEventPacketsSilentFinish(detections, timestampUs, active, cfg) ==
    LET seenTracks == SeenTracks(detections)
        fallingTracks == FallingTracks(detections)
        started == SetToSortedSeq({ t \in fallingTracks : t \notin DOMAIN active })
        refreshed == [t \in DOMAIN active \cup fallingTracks |->
                        IF t \in fallingTracks THEN timestampUs ELSE active[t]]
        toFinish == { t \in DOMAIN refreshed :
                        /\ t \notin fallingTracks
                        /\ \/ t \in seenTracks
                           \/ (timestampUs - refreshed[t]) >= cfg.fallFinishGraceUs }
    IN  [packets |-> [i \in 1..Len(started) |-> FallEvent(started[i], timestampUs, TRUE)],
         active |-> Without(refreshed, toFinish)]

\* variant: the FINISH packet is pushed but the entry stays in m_activeFallTracks
MakeFallEventPacketsKeepsFinished(detections, timestampUs, active, cfg) ==
    LET seenTracks == SeenTracks(detections)
        fallingTracks == FallingTracks(detections)
        started == SetToSortedSeq(StartedTracks(fallingTracks, active))
        refreshed == [t \in DOMAIN active \cup fallingTracks |->
                        IF t \in fallingTracks THEN timestampUs ELSE active[t]]
        toFinish == SetToSortedSeq(
                        ToFinish(refreshed, seenTracks, fallingTracks, timestampUs, cfg))
    IN  [packets |-> [i \in 1..Len(started) |-> FallEvent(started[i], timestampUs, TRUE)]
                       \o [i \in 1..Len(toFinish) |-> FallEvent(toFinish[i], timestampUs, FALSE)],
         active |-> refreshed]

\* variant: a frame without detections returns before the loops
MakeFallEventPacketsSkipsEmptyFrame(detections, timestampUs, active, cfg) ==
    LET seenTracks == SeenTracks(detections)
        fallingTracks == FallingTracks(detections)
        started == SetToSortedSeq(StartedTracks(fallingTracks, active))
        refreshed == [t \in DOMAIN active \cup fallingTracks |->
                        IF t \in fallingTracks THEN timestampUs ELSE active[t]]
        toFinish == SetToSortedSeq(
                        ToFinish(refreshed, seenTracks, fallingTracks, timestampUs, cfg))
    IN  IF detections = << >>
        THEN [packets |-> << >>, active |-> active]
        ELSE [packets |-> [i \in 1..Len(started) |-> FallEvent(started[i], timestampUs, TRUE)]
                            \o [i \in 1..Len(toFinish) |-> FallEvent(toFinish[i], timestampUs, FALSE)],
              active |-> Without(refreshed, Range(toFinish))]

\* DeviceAgent::makeFallEventPackets: the packets and m_activeFallTracks afterwards
MakeFallEventPackets(detections, timestampUs, active, cfg) ==
    LET seenTracks == SeenTracks(detections)
        fallingTracks == FallingTracks(detections)
        started == SetToSortedSeq(StartedTracks(fallingTracks, active))
        refreshed == [t \in DOMAIN active \cup fallingTracks |->
                        IF t \in fallingTracks THEN timestampUs ELSE active[t]]
        toFinish == SetToSortedSeq(
                        ToFinish(refreshed, seenTracks, fallingTracks, timestampUs, cfg))
    IN  [packets |-> [i \in 1..Len(started) |-> FallEvent(started[i], timestampUs, TRUE)]
                       \o [i \in 1..Len(toFinish) |-> FallEvent(toFinish[i], timestampUs, FALSE)],
         active |-> Without(refreshed, Range(toFinish))]

\* ------------------------------------------------------------------ processFrameJob
\* what the service did with a request: a 200 response whose body is the array
\* `items`, a failure of one of FailureKinds, or nothing (no request was made)
Ok(items) == [kind |-> "ok", items |-> items]
Failed(kind) == [kind |-> kind, items |-> << >>]
NoResponse == [kind |-> "none", items |-> << >>]

EventPackets(packets) == SelectSeq(packets, LAMBDA p : p.type = "event")

RECURSIVE LogFallEvents(_, _)
\* fallLog after the event packets were pushed to the host, in order
LogFallEvents(log, events) ==
    IF events = << >> THEN log
    ELSE LET u == Head(events).trackId
             kind == IF Head(events).isActive THEN "START" ELSE "FINISH"
             before == IF u \in DOMAIN log THEN log[u] ELSE << >>
         IN  LogFallEvents(Put(log, u, Append(before, kind)), Tail(events))

\* DeviceAgent::processFrameJob for the job the worker holds: run the detector
\* (steady clock advanced by d, service answering outcome), resolve tracks, push
\* the object packet and the fall packets, clean up
ProcessFrameJob(advances, outcomes) ==
    /\ workerPc = "process"
    /\ \E d \in advances, outcome \in outcomes :
       \E r \in { Run(m_config.detector, m_consecutiveFailures, m_circuitOpen,
                      m_circuitRetryAt, clock + d, outcome) } :
       \E res \in { ResolveTrackIds([next |-> m_nextSyntheticTrackId,
                                     syn |-> m_syntheticTracks,
                                     uuidByKey |-> m_trackUuidByKey,
                                     lastSeen |-> m_trackLastSeenUs,
                                     nextUuid |-> nextUuid],
                                    m_config, r.detections, job.timestampUs) } :
       \E objectPacket \in { MakeObjectPacket(res.detections, job.timestampUs) },
          fall \in { MakeFallEventPackets(res.detections, job.timestampUs,
                                          m_activeFallTracks, m_config) },
          reg1 \in { CleanupTrackState(res.reg, m_config, job.timestampUs) },
          falling \in { FallingTracks(res.detections) } :
             /\ clock' = clock + d
             /\ m_consecutiveFailures' = r.breaker.failures
             /\ m_circuitOpen' = r.breaker.open
             /\ m_circuitRetryAt' = r.breaker.retryAt
             /\ failStreak' = IF ~r.called THEN failStreak
                              ELSE IF r.succeeded THEN 0
                              ELSE IF m_circuitOpen THEN 1
                              ELSE failStreak + 1
             /\ m_nextSyntheticTrackId' = reg1.next
             /\ m_syntheticTracks' = reg1.syn
             /\ m_trackUuidByKey' = reg1.uuidByKey
             /\ m_trackLastSeenUs' = reg1.lastSeen
             /\ nextUuid' = reg1.nextUuid
             /\ m_activeFallTracks' = fall.active
             /\ lastRun' = [id |-> job.id, timestampUs |-> job.timestampUs,
                            called |-> r.called, network |-> r.network,
                            succeeded |-> r.succeeded,
                            response |-> IF r.called THEN outcome ELSE NoResponse,
                            detections |-> res.detections, keys |-> res.keys,
                            packets |-> objectPacket \o fall.packets]
             /\ emitted' = IF objectPacket \o fall.packets = << >> THEN emitted
                           ELSE [n |-> Min(2, emitted.n + 1), timestampUs |-> job.timestampUs,
                                 before |-> emitted.timestampUs]
             /\ sightings' = [k \in DOMAIN sightings \cup Range(res.keys) |->
                                IF k \in Range(res.keys)
                                THEN [uuid |-> res.reg.uuidByKey[k],
                                      timestampUs |-> job.timestampUs,
                                      ai |-> \E i \in 1..Len(res.keys) :
                                               /\ res.keys[i] = k
                                               /\ res.detections[i].aiTrackId.has]
                                ELSE sightings[k]]
             /\ fallLog' = LogFallEvents(fallLog, fall.packets)
             /\ lastFallingUs' = [u \in DOMAIN lastFallingUs \cup falling |->
                                    IF u \in falling THEN job.timestampUs
                                    ELSE lastFallingUs[u]]
    /\ workerPc' = "lock"
    /\ UNCHANGED << m_config, cameraB, mvpAgent, m_minFrameIntervalUs, hostPc, m_queueMutex, job, burst,
                    drained, ingressVars, queueVars >>

\* ------------------------------------------------------------------ construction
\* ObjectDetector::parseServiceUrl: the exception thrown ("none": returns) and
\* the endpoint returned
ParseServiceUrl(url) ==
    LET throw(e) == [throws |-> e, endpoint |-> [host |-> "", port |-> 0, inferPath |-> << >>]]
        port == IF url.port.kind = "absent" THEN 80 ELSE url.port.val
        inferPath == IF url.path = << >> \/ url.path = << "" >> THEN << "infer" >>
                     ELSE IF url.path[Len(url.path)] = "infer" THEN url.path
                     ELSE Append(url.path, "infer")
    IN  IF url.scheme = "" /\ url.host = "" /\ url.port.kind = "absent" /\ url.path = << >>
        THEN throw("runtime_error")
        ELSE IF url.scheme = "https://" THEN throw("runtime_error")
        ELSE IF url.port.kind = "text" THEN throw("invalid_argument")
        ELSE IF url.port.kind = "beyondInt" THEN throw("out_of_range")
        ELSE IF url.host = "" THEN throw("runtime_error")
        ELSE IF port <= 0 \/ port > 65535 THEN throw("runtime_error")
        ELSE [throws |-> "none",
              endpoint |-> [host |-> url.host, port |-> port, inferPath |-> inferPath]]

\* Engine::doObtainDeviceAgent: new DeviceAgent(...), whose member
\* m_objectDetector parses the URL in its constructor; nothing on the way
\* catches, so an exception of parseServiceUrl leaves the call (no agent, no
\* worker); otherwise the worker thread is started
ObtainDeviceAgent ==
    /\ hostPc = "obtain"
    /\ \E e \in { ParseServiceUrl(m_config.detector.serviceUrl) } :
         IF e.throws # "none"
         THEN hostPc' = "threw" /\ UNCHANGED workerPc
         ELSE hostPc' = "idle" /\ workerPc' = "lock"
    /\ UNCHANGED << m_config, cameraB, mvpAgent, m_minFrameIntervalUs, m_queueMutex, job, burst,
                    drained, ingressVars, queueVars, breakerVars, trackVars, fallVars >>

\* ------------------------------------------------------------------ second camera
\* pushUncompressedVideoFrame of the second DeviceAgent, as one step: sample,
\* convert, enqueue
CameraBPushFrame(timestamps, maxFrames) ==
    /\ cameraB.frameCount < maxFrames
    /\ \E timestampUs \in timestamps :
       \E s \in { ShouldSampleFrame(m_minFrameIntervalUs, cameraB.m_lastAcceptedTimestampUs,
                                    timestampUs) } :
          cameraB' = [cameraB EXCEPT
                        !.frameCount = @ + 1,
                        !.m_lastAcceptedTimestampUs = s.last,
                        !.m_frameQueue =
                            IF s.accept
                            THEN EnqueueFrameJob(@, m_config.maxQueueSize,
                                                 [timestampUs |-> timestampUs,
                                                  id |-> cameraB.frameCount + 1])
                            ELSE @]
    /\ UNCHANGED << m_config, mvpAgent, m_minFrameIntervalUs, hostPc, m_queueMutex, workerPc, job,
                    burst, drained, ingressVars, queueVars, breakerVars, trackVars, fallVars >>

\* workerLoop and processFrameJob of the second DeviceAgent, as one step: take
\* the front job, run its detector, resolve tracks in its registry, drive its
\* fall state machine, clean up.  randomUuid() and the steady clock are the
\* process's, everything else is the second agent's own.
CameraBProcessFrameJob(advances, outcomes) ==
    /\ cameraB.m_frameQueue # << >>
    /\ \E d \in advances, outcome \in outcomes :
       \E timestampUs \in { Head(cameraB.m_frameQueue).timestampUs } :
       \E r \in { Run(m_config.detector, cameraB.m_consecutiveFailures,
                      cameraB.m_circuitOpen, cameraB.m_circuitRetryAt, clock + d, outcome) } :
       \E res \in { ResolveTrackIds([next |-> cameraB.m_nextSyntheticTrackId,
                                     syn |-> cameraB.m_syntheticTracks,
                                     uuidByKey |-> cameraB.m_trackUuidByKey,
                                     lastSeen |-> cameraB.m_trackLastSeenUs,
                                     nextUuid |-> nextUuid],
                                    m_config, r.detections, timestampUs) } :
       \E fall \in { MakeFallEventPackets(res.detections, timestampUs,
                                          cameraB.m_activeFallTracks, m_config) },
          reg1 \in { CleanupTrackState(res.reg, m_config, timestampUs) } :
             /\ clock' = clock + d
             /\ nextUuid' = reg1.nextUuid
             /\ cameraB' = [cameraB EXCEPT
                              !.m_frameQueue = Tail(@),
                              !.m_consecutiveFailures = r.breaker.failures,
                              !.m_circuitOpen = r.breaker.open,
                              !.m_circuitRetryAt = r.breaker.retryAt,
                              !.m_nextSyntheticTrackId = reg1.next,
                              !.m_syntheticTracks = reg1.syn,
                              !.m_trackUuidByKey = reg1.uuidByKey,
                              !.m_trackLastSeenUs = reg1.lastSeen,
                              !.m_activeFallTracks = fall.active]
    /\ UNCHANGED << m_config, mvpAgent, m_minFrameIntervalUs, hostPc, m_queueMutex, workerPc, job,
                    burst, drained, ingressVars, queueVars, m_consecutiveFailures,
                    m_circuitOpen, m_circuitRetryAt, failStreak, m_nextSyntheticTrackId,
                    m_syntheticTracks, m_trackUuidByKey, m_trackLastSeenUs, sightings,
                    fallVars >>

\* ------------------------------------------------------------------ sample_company agent
\* The earlier DeviceAgent of the repository (namespace sample_company): a
\* frame queue of which the worker takes the newest job, a queue of outgoing
\* metadata packets, and per-track fall events.
kDetectionFramePeriod == 2
kFrameQueueMaxSize == 3

\* a detection of the service: class label, track id, fall flag
MvpDetection(classLabel, trackId, fallDetected) ==
    [classLabel |-> classLabel, trackId |-> trackId, fallDetected |-> fallDetected]

\* what ObjectDetector::run does for one job: it throws, or returns detections
MvpThrows == [throws |-> TRUE, detections |-> << >>]
MvpReturns(detections) == [throws |-> FALSE, detections |-> detections]

\* the packets processFrameJob builds
MvpObjectPacket(timestampUs) ==
    [type |-> "object", isActive |-> TRUE, trackId |-> 0, timestampUs |-> timestampUs]
MvpPersonPacket(started, timestampUs) ==
    [type |-> "person", isActive |-> started, trackId |-> 0, timestampUs |-> timestampUs]
MvpFallPacket(isActive, trackId, timestampUs) ==
    [type |-> "fall", isActive |-> isActive, trackId |-> trackId, timestampUs |-> timestampUs]

\* processFrameJob: the packets of one job and the members it leaves, for what
\* the detector did
MvpProcessFrameJobResult(agent, timestampUs, outcome) ==
    IF outcome.throws
    THEN [result |-> << >>,
          m_personDetectionActive |-> agent.m_personDetectionActive,
          m_activeFallDetectedTrackIds |-> agent.m_activeFallDetectedTrackIds]
    ELSE LET detections == outcome.detections
             persons == { i \in DOMAIN detections : detections[i].classLabel = "person" }
             hasPerson == persons # {}
             currentFallDetectedTrackIds ==
                 { detections[i].trackId : i \in { p \in persons : detections[p].fallDetected } }
             started == SetToSortedSeq(currentFallDetectedTrackIds
                                           \ agent.m_activeFallDetectedTrackIds)
             afterStart == agent.m_activeFallDetectedTrackIds \cup currentFallDetectedTrackIds
             tracksToClear == SetToSortedSeq(afterStart \ currentFallDetectedTrackIds)
         IN  [result |->
                  (IF detections = << >> THEN << >> ELSE << MvpObjectPacket(timestampUs) >>)
                  \o (IF hasPerson # agent.m_personDetectionActive
                      THEN << MvpPersonPacket(hasPerson, timestampUs) >> ELSE << >>)
                  \o [i \in 1..Len(started) |-> MvpFallPacket(TRUE, started[i], timestampUs)]
                  \o [i \in 1..Len(tracksToClear) |->
                          MvpFallPacket(FALSE, tracksToClear[i], timestampUs)],
              m_personDetectionActive |-> hasPerson,
              m_activeFallDetectedTrackIds |-> afterStart \ Range(tracksToClear)]

\* the members after the constructor: the worker thread is started
MvpInit ==
    [hostPc |-> "idle", workerPc |-> "wait", m_terminated |-> FALSE, m_frameIndex |-> 0,
     m_frameQueue |-> << >>, m_workerShouldStop |-> FALSE,
     job |-> [timestampUs |-> 0, frameIndex |-> 0],
     m_metadataQueue |-> << >>, m_activeFallDetectedTrackIds |-> {},
     m_personDetectionActive |-> FALSE, pulled |-> FALSE, returnedToHost |-> << >>]

\* pushUncompressedVideoFrame: a null frame, a terminated detector, a frame
\* off the detection period, a frame whose encoding throws, or a job enqueued
\* (the oldest job dropped when the queue is full).  The frame's timestamp is
\* one more than its index.
MvpPushFrame(maxFrames) ==
    /\ mvpAgent.hostPc = "idle"
    /\ mvpAgent.m_frameIndex < maxFrames
    /\ \E isNull \in BOOLEAN, terminated \in BOOLEAN, encodes \in BOOLEAN :
          IF isNull
          THEN UNCHANGED mvpAgent
          ELSE IF mvpAgent.m_terminated \/ terminated
          THEN mvpAgent' = [mvpAgent EXCEPT !.m_terminated = TRUE]
          ELSE IF mvpAgent.m_frameIndex % kDetectionFramePeriod = 0 /\ encodes
          THEN mvpAgent' =
                 [mvpAgent EXCEPT
                    !.m_frameQueue =
                        (IF Len(@) >= kFrameQueueMaxSize THEN Tail(@) ELSE @)
                        \o << [timestampUs |-> mvpAgent.m_frameIndex + 1,
                               frameIndex |-> mvpAgent.m_frameIndex] >>,
                    !.m_frameIndex = @ + 1]
          ELSE mvpAgent' = [mvpAgent EXCEPT !.m_frameIndex = @ + 1]
    /\ UNCHANGED << m_config, cameraB, m_minFrameIntervalUs, hostPc, m_queueMutex, workerPc,
                    job, burst, drained, ingressVars, queueVars, breakerVars, trackVars,
                    fallVars >>

\* workerThreadRun, from the wait to the dequeue: leave the loop when stopped
\* and empty, otherwise take the newest job and clear the queue
MvpWorkerDequeue ==
    /\ mvpAgent.workerPc = "wait"
    /\ mvpAgent.m_frameQueue # << >> \/ mvpAgent.m_workerShouldStop
    /\ IF mvpAgent.m_frameQueue = << >>
       THEN mvpAgent' = [mvpAgent EXCEPT !.workerPc = "done"]
       ELSE mvpAgent' = [mvpAgent EXCEPT
                           !.job = mvpAgent.m_frameQueue[Len(mvpAgent.m_frameQueue)],
                           !.m_frameQueue = << >>,
                           !.workerPc = "process"]
    /\ UNCHANGED << m_config, cameraB, m_minFrameIntervalUs, hostPc, m_queueMutex, workerPc,
                    job, burst, drained, ingressVars, queueVars, breakerVars, trackVars,
                    fallVars >>

\* workerThreadRun, the rest of one round: processFrameJob, then every packet
\* of its result appended to m_metadataQueue
MvpProcessFrameJob(outcomes) ==
    /\ mvpAgent.workerPc = "process"
    /\ \E outcome \in outcomes :
       \E r \in { MvpProcessFrameJobResult(mvpAgent, mvpAgent.job.timestampUs, outcome) } :
          mvpAgent' = [mvpAgent EXCEPT
                         !.m_metadataQueue = @ \o r.result,
                         !.m_personDetectionActive = r.m_personDetectionActive,
                         !.m_activeFallDetectedTrackIds = r.m_activeFallDetectedTrackIds,
                         !.workerPc = "wait"]
    /\ UNCHANGED << m_config, cameraB, m_minFrameIntervalUs, hostPc, m_queueMutex, workerPc,
                    job, burst, drained, ingressVars, queueVars, breakerVars, trackVars,
                    fallVars >>

\* the host pulls metadata: the class overrides no pull method and nothing
\* reads m_metadataQueue, so the host is handed no packet of it
MvpPullMetadataPackets ==
    /\ mvpAgent.hostPc = "idle"
    /\ mvpAgent' = [mvpAgent EXCEPT !.pulled = TRUE]
    /\ UNCHANGED << m_config, cameraB, m_minFrameIntervalUs, hostPc, m_queueMutex, workerPc,
                    job, burst, drained, ingressVars, queueVars, breakerVars, trackVars,
                    fallVars >>

\* ~DeviceAgent: set m_workerShouldStop under the mutex and notify the worker
MvpDtorSetStop ==
    /\ mvpAgent.hostPc = "idle"
    /\ mvpAgent' = [mvpAgent EXCEPT !.m_workerShouldStop = TRUE, !.hostPc = "join"]
    /\ UNCHANGED << m_config, cameraB, m_minFrameIntervalUs, hostPc, m_queueMutex, workerPc,
                    job, burst, drained, ingressVars, queueVars, breakerVars, trackVars,
                    fallVars >>

\* ~DeviceAgent: join returns once the worker has left its loop
MvpDtorJoin ==
    /\ mvpAgent.hostPc = "join"
    /\ mvpAgent.workerPc = "done"
    /\ mvpAgent' = [mvpAgent EXCEPT !.hostPc = "destroyed"]
    /\ UNCHANGED << m_config, cameraB, m_minFrameIntervalUs, hostPc, m_queueMutex, workerPc,
                    job, burst, drained, ingressVars, queueVars, breakerVars, trackVars,
                    fallVars >>

\* ------------------------------------------------------------------ initial state
\* the members as DeviceAgent's constructor sets them, for a configuration of
\* `configs`, the host about to deliver a stream with a spacing of `spacings`
InitMembers(configs, spacings) ==
    /\ m_config \in configs
    /\ \E s \in spacings : stream = [spacing |-> s, accepted |-> {}]
    /\ cameraB = [frameCount |-> 0, m_lastAcceptedTimestampUs |-> 0,
                  m_frameQueue |-> << >>, m_consecutiveFailures |-> 0,
                  m_circuitOpen |-> FALSE, m_circuitRetryAt |-> 0,
                  m_nextSyntheticTrackId |-> -1, m_syntheticTracks |-> EmptyMap,
                  m_trackUuidByKey |-> EmptyMap, m_trackLastSeenUs |-> EmptyMap,
                  m_activeFallTracks |-> EmptyMap]
    /\ mvpAgent = MvpInit
    /\ m_minFrameIntervalUs = MinFrameIntervalUs(m_config)
    /\ m_lastAcceptedTimestampUs = 0
    /\ pendingJob = [timestampUs |-> 0, id |-> 0]
    /\ frameCount = 0
    /\ returned = TRUE
    /\ m_queueMutex = "free"
    /\ m_frameQueue = << >>
    /\ m_stop = FALSE
    /\ job = [timestampUs |-> 0, id |-> 0]
    /\ m_consecutiveFailures = 0
    /\ m_circuitOpen = FALSE
    /\ m_circuitRetryAt = 0
    /\ clock = 0
    /\ failStreak = 0
    /\ m_nextSyntheticTrackId = -1
    /\ m_syntheticTracks = EmptyMap
    /\ m_trackUuidByKey = EmptyMap
    /\ m_trackLastSeenUs = EmptyMap
    /\ nextUuid = 0
    /\ m_activeFallTracks = EmptyMap
    /\ lastRun = [id |-> 0, timestampUs |-> 0, called |-> FALSE, network |-> FALSE,
                  succeeded |-> FALSE, response |-> NoResponse, detections |-> << >>,
                  keys |-> << >>, packets |-> << >>]
    /\ sampled = [id |-> 0, timestampUs |-> 0, accept |-> FALSE, kind |-> "none",
                  ordered |-> TRUE]
    /\ m_lastLogAt = [never |-> TRUE, at |-> 0]
    /\ diagnostics = 0
    /\ emitted = [n |-> 0, timestampUs |-> 0, before |-> 0]
    /\ sightings = EmptyMap
    /\ fallLog = EmptyMap
    /\ lastFallingUs = EmptyMap
    /\ burst = << >>
    /\ drained = << >>

\* the state after DeviceAgent's constructor: the worker thread is started
InitStream(configs, spacings) ==
    /\ InitMembers(configs, spacings)
    /\ hostPc = "idle"
    /\ workerPc = "lock"

\* the same, the host's stream being of no particular spacing
InitWith(configs) == InitStream(configs, { 0 })

\* ------------------------------------------------------------------ inputs
\* DetectorConfig and DeviceAgentConfig with the defaults' proportions, in ticks
\* a service URL: the scheme it is written with ("" for none), the host, the
\* text after the last ':' of host:port (absent, digits read by std::stoi as
\* val, text that is no number, digits beyond int), the path as the segments
\* that follow its slashes
Url(scheme, host, port, path) == [scheme |-> scheme, host |-> host, port |-> port, path |-> path]
NoPort == [kind |-> "absent", val |-> 0]
Port(n) == [kind |-> "digits", val |-> n]
DefaultServiceUrl == Url("http://", "127.0.0.1", Port(18000), << >>)
DefaultDetectorConfig ==
    [circuitFailureThreshold |-> 2, circuitOpenMs |-> 2, serviceUrl |-> DefaultServiceUrl]
DefaultConfig ==
    [detector |-> DefaultDetectorConfig, sampleFps |-> 20, maxQueueSize |-> 2,
     fallFinishGraceUs |-> 2, syntheticTrackTtlUs |-> 1, trackMapTtlUs |-> 2,
     logThrottleMs |-> 2]

Timestamps == 1..MaxTs
FrameKinds == { "ok", "unsupported", "null" }

\* response elements: a person the service tracks itself (track_id 7) and one it
\* does not, each flagged as falling or not
Item(x, y, w, h, fall, track) ==
    [x |-> x, y |-> y, w |-> w, h |-> h, fall_detected |-> fall, track_id |-> track]
TrackedItem(fall) == Item(0, 0, 2, 2, fall, [kind |-> "int", val |-> 7])
UntrackedItem(fall) == Item(2, 2, 2, 2, fall, [kind |-> "absent", val |-> 0])
FallItems == { TrackedItem(f) : f \in BOOLEAN } \cup { UntrackedItem(f) : f \in BOOLEAN }

FallOutcomes ==
    { Ok(<< >>) } \cup { Ok(<< a >>) : a \in FallItems }
        \cup { Ok(<< TrackedItem(TRUE), UntrackedItem(TRUE) >>),
               Ok(<< TrackedItem(TRUE), TrackedItem(FALSE) >>) }
        \cup { Failed(k) : k \in FailureKinds }

\* ------------------------------------------------------------------ specification
Init == InitWith({ DefaultConfig })

Next ==
    \/ PushFrame(Timestamps, {"ok"}, MaxFrames)
    \/ EnqueueLock
    \/ Enqueue
    \/ DtorLock
    \/ DtorSetStop
    \/ DtorNotifyAll
    \/ DtorJoin
    \/ WorkerLock
    \/ WorkerWait
    \/ WorkerSpuriousWakeup
    \/ WorkerExit
    \/ WorkerDequeue
    \/ ProcessFrameJob({1}, FallOutcomes)

Spec == Init /\ [][Next]_vars

\* the queue under load: capacities 1..MaxQueueSize, the host delivering
\* QueueFrames frames one tick apart, some of them not convertible
QueueConfigs == { [DefaultConfig EXCEPT !.maxQueueSize = k] : k \in 1..MaxQueueSize }
InitQueue == InitWith(QueueConfigs)

NextQueue ==
    \/ PushFrame({frameCount + 1}, { "ok", "unsupported" }, QueueFrames)
    \/ EnqueueLock
    \/ Enqueue
    \/ DtorLock
    \/ DtorSetStop
    \/ DtorNotifyAll
    \/ DtorJoin
    \/ WorkerLock
    \/ WorkerWait
    \/ WorkerSpuriousWakeup
    \/ WorkerExit
    \/ WorkerDequeue
    \/ ProcessFrameJob({1}, { Ok(<< >>), Failed("timeout") })

SpecQueue == InitQueue /\ [][NextQueue]_vars

\* the same under the scheduler: a thread that can take its next step takes it
\* eventually.  This holds of the worker's steps (a detector call returns) and
\* of the destructor's once it holds the mutex; the host is not bound to push
\* or to destroy, and a wait is not bound to return without a notification.
WorkerProgress ==
    /\ WF_vars(WorkerLock)
    /\ WF_vars(WorkerWait)
    /\ WF_vars(WorkerExit)
    /\ WF_vars(WorkerDequeue)
    /\ WF_vars(ProcessFrameJob({1}, { Ok(<< >>), Failed("timeout") }))
DtorProgress ==
    /\ WF_vars(DtorSetStop)
    /\ WF_vars(DtorNotifyAll)
    /\ WF_vars(DtorJoin)
SpecShutdown == SpecQueue /\ WorkerProgress /\ DtorProgress

\* one person the service tracks, flagged as falling in some frames, seen
\* unflagged or missing in others; MaxFrames frames one tick apart
OneFallOutcomes ==
    { Ok(<< >>), Ok(<< TrackedItem(TRUE) >>), Ok(<< TrackedItem(FALSE) >>), Failed("timeout") }

NextFalls ==
    \/ PushFrame({ frameCount + 1 }, { "ok" }, MaxFrames)
    \/ EnqueueLock
    \/ Enqueue
    \/ DtorLock
    \/ DtorSetStop
    \/ DtorNotifyAll
    \/ DtorJoin
    \/ WorkerLock
    \/ WorkerWait
    \/ WorkerSpuriousWakeup
    \/ WorkerExit
    \/ WorkerDequeue
    \/ ProcessFrameJob({1}, OneFallOutcomes)

\* falls under the scheduler: the worker takes its next step eventually, a
\* detector call returns, whatever its outcome, and the host leaves a critical
\* section it has entered
FallWorkerProgress ==
    /\ WF_vars(WorkerLock)
    /\ WF_vars(WorkerWait)
    /\ WF_vars(WorkerExit)
    /\ WF_vars(WorkerDequeue)
    /\ WF_vars(ProcessFrameJob({1}, OneFallOutcomes))
HostLeavesCriticalSection == WF_vars(Enqueue) /\ DtorProgress
SpecFalls == Init /\ [][NextFalls]_vars /\ FallWorkerProgress /\ HostLeavesCriticalSection

\* the circuit breaker: thresholds 1..MaxThreshold, BreakerCalls frames one
\* tick apart, the steady clock advancing 0..MaxAdvance ticks between calls
BreakerConfigs ==
    { [DefaultConfig EXCEPT !.detector.circuitFailureThreshold = t] : t \in 1..MaxThreshold }
InitBreaker == InitWith(BreakerConfigs)
\* a response element of no width: callService drops it
DroppedItem == Item(1, 1, 0, 2, FALSE, [kind |-> "absent", val |-> 0])
BreakerOutcomes ==
    { Ok(<< >>), Ok(<< DroppedItem >>), Ok(<< TrackedItem(FALSE) >>),
      Failed("timeout"), Failed("encodeFailed") }

NextBreaker ==
    \/ PushFrame({frameCount + 1}, { "ok" }, BreakerCalls)
    \/ EnqueueLock
    \/ Enqueue
    \/ DtorLock
    \/ DtorSetStop
    \/ DtorNotifyAll
    \/ DtorJoin
    \/ WorkerLock
    \/ WorkerWait
    \/ WorkerSpuriousWakeup
    \/ WorkerExit
    \/ WorkerDequeue
    \/ ProcessFrameJob(0..MaxAdvance, BreakerOutcomes)

SpecBreaker == InitBreaker /\ [][NextBreaker]_vars

\* the sampler: sampling rates that disable it (0), give an interval of 2 and
\* of 1 tick, or round to an interval of 0 (50); timestamps 0..MaxTs in any order
SampleRates == { 0, 10, 20, 50 }
SamplerConfigs == { [DefaultConfig EXCEPT !.sampleFps = f] : f \in SampleRates }
InitSampler == InitWith(SamplerConfigs)

NextSampler ==
    \/ PushFrame(0..MaxTs, { "ok", "null" }, MaxFrames)
    \/ EnqueueLock
    \/ Enqueue
    \/ DtorLock
    \/ DtorSetStop
    \/ DtorNotifyAll
    \/ DtorJoin
    \/ WorkerLock
    \/ WorkerWait
    \/ WorkerSpuriousWakeup
    \/ WorkerExit
    \/ WorkerDequeue
    \/ ProcessFrameJob({1}, { Ok(<< >>), Ok(<< TrackedItem(FALSE) >>) })

SpecSampler == InitSampler /\ [][NextSampler]_vars

\* the track registry: frames 1, 2 or 3 ticks after the last accepted one, the
\* service reporting a person it tracks itself (track_id 7) or persons without
\* track_id in boxes that overlap one another to different degrees
Untracked(x, y, w, h) == Item(x, y, w, h, FALSE, [kind |-> "absent", val |-> 0])
LeftBox == Untracked(0, 0, 2, 4)
WideBox == Untracked(1, 0, 3, 4)
MiddleBox == Untracked(1, 0, 2, 4)
FrameGaps == { 1, 2, 3 }
TrackOutcomes ==
    { Ok(<< >>), Ok(<< LeftBox, WideBox >>), Ok(<< WideBox, LeftBox >>), Ok(<< MiddleBox >>),
      Ok(<< TrackedItem(FALSE) >>), Failed("timeout") }

NextTracks ==
    \/ PushFrame({ m_lastAcceptedTimestampUs + g : g \in FrameGaps }, { "ok" }, MaxFrames)
    \/ EnqueueLock
    \/ Enqueue
    \/ DtorLock
    \/ DtorSetStop
    \/ DtorNotifyAll
    \/ DtorJoin
    \/ WorkerLock
    \/ WorkerWait
    \/ WorkerSpuriousWakeup
    \/ WorkerExit
    \/ WorkerDequeue
    \/ ProcessFrameJob({1}, TrackOutcomes)

SpecTracks == Init /\ [][NextTracks]_vars

\* track keys: frames 1 or 2 ticks after the last accepted one, the service
\* reporting persons without track_id (in boxes inside the image, or beyond its
\* right and bottom edges) and persons with track_id -1 or 0
TrackedAs(n) == Item(0, 0, 2, 2, FALSE, [kind |-> "int", val |-> n])
RightBox == Untracked(3, 0, 1, 4)
FarBox == Untracked(5, 6, 1, 2)
KeyOutcomes ==
    { Ok(<< LeftBox >>), Ok(<< MiddleBox >>), Ok(<< RightBox >>), Ok(<< FarBox >>),
      Ok(<< LeftBox, TrackedAs(-1) >>), Ok(<< TrackedAs(-1) >>), Ok(<< TrackedAs(0) >>) }

NextKeys ==
    \/ PushFrame({ m_lastAcceptedTimestampUs + g : g \in { 1, 2 } }, { "ok" }, MaxFrames)
    \/ EnqueueLock
    \/ Enqueue
    \/ DtorLock
    \/ DtorSetStop
    \/ DtorNotifyAll
    \/ DtorJoin
    \/ WorkerLock
    \/ WorkerWait
    \/ WorkerSpuriousWakeup
    \/ WorkerExit
    \/ WorkerDequeue
    \/ ProcessFrameJob({1}, KeyOutcomes)

SpecKeys == Init /\ [][NextKeys]_vars

\* the failure kinds: the default configuration, MaxFrames frames one tick
\* apart, the steady clock advancing 1..MaxAdvance+1 ticks between calls, the
\* service failing in every way or answering
FailureOutcomes ==
    { Ok(<< >>), Ok(<< TrackedItem(FALSE) >>) } \cup { Failed(k) : k \in FailureKinds }

NextFailures ==
    \/ PushFrame({frameCount + 1}, { "ok" }, MaxFrames)
    \/ EnqueueLock
    \/ Enqueue
    \/ DtorLock
    \/ DtorSetStop
    \/ DtorNotifyAll
    \/ DtorJoin
    \/ WorkerLock
    \/ WorkerWait
    \/ WorkerSpuriousWakeup
    \/ WorkerExit
    \/ WorkerDequeue
    \/ ProcessFrameJob(1..(MaxAdvance + 1), FailureOutcomes)

SpecFailures == Init /\ [][NextFailures]_vars

\* a uniform stream: sampling rates F that divide a second into whole ticks, the
\* host's frames `spacing` ticks apart, closer than the sampling interval (the
\* stream's rate R is above F), for StreamSeconds seconds of stream time
StreamSeconds == 2
StreamRates == { 1, 2, 4, 5, 10 }
RateConfigs == { [DefaultConfig EXCEPT !.sampleFps = f] : f \in StreamRates }
InitRate ==
    /\ InitStream(RateConfigs, 1..UsPerSecond)
    /\ stream.spacing < m_minFrameIntervalUs
StreamTimestamps ==
    { t \in { (frameCount + 1) * stream.spacing } : t <= StreamSeconds * UsPerSecond }

NextRate ==
    \/ PushFrame(StreamTimestamps, { "ok" }, StreamSeconds * UsPerSecond)
    \/ EnqueueLock
    \/ Enqueue
    \/ DtorLock
    \/ DtorSetStop
    \/ DtorNotifyAll
    \/ DtorJoin
    \/ WorkerLock
    \/ WorkerWait
    \/ WorkerSpuriousWakeup
    \/ WorkerExit
    \/ WorkerDequeue
    \/ ProcessFrameJob({0}, { Ok(<< >>) })

SpecRate == InitRate /\ [][NextRate]_vars

\* obtaining the agent: the Engine's configuration with NX_AI_SERVICE_URL set
\* to the default, to a URL without scheme, with a path, with https://, with a
\* port that is no number, beyond int, 0 or 70000, without host, or to blanks
ServiceUrls ==
    { DefaultServiceUrl,
      Url("", "127.0.0.1", Port(18000), << >>),
      Url("http://", "ai.local", NoPort, << "api" >>),
      Url("https://", "127.0.0.1", Port(18000), << >>),
      Url("http://", "127.0.0.1", [kind |-> "text", val |-> 0], << >>),
      Url("http://", "127.0.0.1", [kind |-> "beyondInt", val |-> 0], << >>),
      Url("http://", "127.0.0.1", Port(0), << >>),
      Url("http://", "127.0.0.1", Port(70000), << >>),
      Url("http://", "", Port(80), << >>),
      Url("", "", NoPort, << >>) }
UrlConfigs == { [DefaultConfig EXCEPT !.detector.serviceUrl = u] : u \in ServiceUrls }
InitObtain ==
    /\ InitMembers(UrlConfigs, { 0 })
    /\ hostPc = "obtain"
    /\ workerPc = "unstarted"

NextObtain ==
    \/ ObtainDeviceAgent
    \/ PushFrame({ frameCount + 1 }, { "ok", "unsupported", "null" }, MaxFrames)
    \/ EnqueueLock
    \/ Enqueue
    \/ DtorLock
    \/ DtorSetStop
    \/ DtorNotifyAll
    \/ DtorJoin
    \/ WorkerLock
    \/ WorkerWait
    \/ WorkerSpuriousWakeup
    \/ WorkerExit
    \/ WorkerDequeue
    \/ ProcessFrameJob({1}, FailureOutcomes)

SpecObtain == InitObtain /\ [][NextObtain]_vars

\* malformed frames: sampling intervals of 2 ticks and 1 tick, frames one tick
\* apart, each well-formed, of no width or height, or of an unsupported pixel
\* format
MalformedKinds == { "zeroSize", "unsupported" }
MalformedConfigs == { [DefaultConfig EXCEPT !.sampleFps = f] : f \in { 10, 20 } }
InitMalformed == InitWith(MalformedConfigs)

NextMalformed ==
    \/ PushFrame({ frameCount + 1 }, { "ok" } \cup MalformedKinds, MaxFrames)
    \/ EnqueueLock
    \/ Enqueue
    \/ DtorLock
    \/ DtorSetStop
    \/ DtorNotifyAll
    \/ DtorJoin
    \/ WorkerLock
    \/ WorkerWait
    \/ WorkerSpuriousWakeup
    \/ WorkerExit
    \/ WorkerDequeue
    \/ ProcessFrameJob({1}, { Ok(<< >>), Ok(<< TrackedItem(TRUE) >>) })

SpecMalformed == InitMalformed /\ [][NextMalformed]_vars

\* bounding boxes: frames one tick apart, the service reporting boxes inside
\* the image, reaching over its right edge, starting left of it, starting on
\* or beyond its right and bottom edges, or of no width
OverEdgeBox == Untracked(3, 1, 3, 2)
LeftOfImageBox == Untracked(-1, 0, 2, 4)
OnEdgeBox == Untracked(4, 0, 1, 4)
BoxOutcomes ==
    { Ok(<< >>), Ok(<< LeftBox >>), Ok(<< OverEdgeBox >>), Ok(<< LeftOfImageBox >>),
      Ok(<< OnEdgeBox >>), Ok(<< FarBox >>), Ok(<< DroppedItem >>),
      Ok(<< DroppedItem, OverEdgeBox, FarBox >>), Failed("timeout") }

NextBoxes ==
    \/ PushFrame({ frameCount + 1 }, { "ok" }, MaxFrames)
    \/ EnqueueLock
    \/ Enqueue
    \/ DtorLock
    \/ DtorSetStop
    \/ DtorNotifyAll
    \/ DtorJoin
    \/ WorkerLock
    \/ WorkerWait
    \/ WorkerSpuriousWakeup
    \/ WorkerExit
    \/ WorkerDequeue
    \/ ProcessFrameJob({1}, BoxOutcomes)

SpecBoxes == Init /\ [][NextBoxes]_vars

\* two cameras of one Engine: CameraFrames frames each, one tick apart, the
\* service reporting on either camera a falling person it tracks itself
\* (track_id 7), a person without track_id, or failing
CameraFrames == 2
CameraOutcomes ==
    { Ok(<< TrackedItem(TRUE) >>), Ok(<< UntrackedItem(FALSE) >>), Failed("timeout") }

NextCameras ==
    \/ PushFrame({ m_lastAcceptedTimestampUs + 1 }, { "ok" }, CameraFrames)
    \/ EnqueueLock
    \/ Enqueue
    \/ DtorLock
    \/ DtorSetStop
    \/ DtorNotifyAll
    \/ DtorJoin
    \/ WorkerLock
    \/ WorkerWait
    \/ WorkerSpuriousWakeup
    \/ WorkerExit
    \/ WorkerDequeue
    \/ ProcessFrameJob({1}, CameraOutcomes)
    \/ CameraBPushFrame({ cameraB.m_lastAcceptedTimestampUs + 1 }, CameraFrames)
    \/ CameraBProcessFrameJob({1}, CameraOutcomes)

SpecCameras == Init /\ [][NextCameras]_vars

\* ---- the two TTLs of the track registry, in either order
\* largest TTL configured, in ticks; frames 1..3 ticks apart
MaxTtl == 3
TtlConfigs ==
    { [DefaultConfig EXCEPT !.syntheticTrackTtlUs = s, !.trackMapTtlUs = m] :
          s \in 1..MaxTtl, m \in 1..MaxTtl }
InitTtl == InitWith(TtlConfigs)

\* the service sees nothing, one object it does not track, or fails
TtlOutcomes == { Ok(<< >>), Ok(<< MiddleBox >>), Failed("timeout") }

NextTtl ==
    \/ PushFrame({ m_lastAcceptedTimestampUs + g : g \in FrameGaps }, { "ok" }, MaxFrames)
    \/ EnqueueLock
    \/ Enqueue
    \/ DtorLock
    \/ DtorSetStop
    \/ DtorNotifyAll
    \/ DtorJoin
    \/ WorkerLock
    \/ WorkerWait
    \/ WorkerSpuriousWakeup
    \/ WorkerExit
    \/ WorkerDequeue
    \/ ProcessFrameJob({1}, TtlOutcomes)

SpecTtl == InitTtl /\ [][NextTtl]_vars

\* ---- several objects in one frame, none tracked by the service
\* two boxes that overlap with IoU 2/3, two that overlap with IoU 1/4, one
\* box, none
OverlapOutcomes ==
    { Ok(<< MiddleBox, WideBox >>), Ok(<< LeftBox, WideBox >>), Ok(<< MiddleBox >>),
      Ok(<< >>) }

NextOverlap ==
    \/ PushFrame({ m_lastAcceptedTimestampUs + g : g \in FrameGaps }, { "ok" }, MaxFrames)
    \/ EnqueueLock
    \/ Enqueue
    \/ DtorLock
    \/ DtorSetStop
    \/ DtorNotifyAll
    \/ DtorJoin
    \/ WorkerLock
    \/ WorkerWait
    \/ WorkerSpuriousWakeup
    \/ WorkerExit
    \/ WorkerDequeue
    \/ ProcessFrameJob({1}, OverlapOutcomes)

SpecOverlap == Init /\ [][NextOverlap]_vars

\* ---- the sample_company agent: frames, detections with fall flags, pulls
\* frames delivered to the sample_company agent
MvpFrames == 7
\* what its detector does for a job
MvpOutcomes ==
    { MvpThrows,
      MvpReturns(<< >>),
      MvpReturns(<< MvpDetection("person", 1, TRUE) >>),
      MvpReturns(<< MvpDetection("person", 1, FALSE) >>),
      MvpReturns(<< MvpDetection("person", 2, TRUE), MvpDetection("person", 1, TRUE) >>),
      MvpReturns(<< MvpDetection("cat", 1, TRUE) >>) }

NextMvp ==
    \/ MvpPushFrame(MvpFrames)
    \/ MvpWorkerDequeue
    \/ MvpProcessFrameJob(MvpOutcomes)
    \/ MvpPullMetadataPackets
    \/ MvpDtorSetStop
    \/ MvpDtorJoin

\* the worker thread runs, and the host keeps pulling metadata while the agent lives
MvpProgress ==
    /\ WF_vars(MvpWorkerDequeue)
    /\ WF_vars(MvpProcessFrameJob(MvpOutcomes))
    /\ WF_vars(MvpPullMetadataPackets)
    /\ WF_vars(MvpDtorJoin)

SpecMvp == Init /\ [][NextMvp]_vars /\ MvpProgress

\* ------------------------------------------------------------------ fall events
\* a step of processFrameJob (every job has its own id)
Processed == lastRun'.id # lastRun.id

Count(log, kind) == Cardinality({ i \in 1..Len(log) : log[i] = kind })
HasPacket(run, packet) == \E i \in 1..Len(run.packets) : run.packets[i] = packet
StartPackets(run) ==
    { i \in 1..Len(run.packets) : run.packets[i].type = "event" /\ run.packets[i].isActive }
FinishPackets(run) ==
    { i \in 1..Len(run.packets) : run.packets[i].type = "event" /\ ~run.packets[i].isActive }

\* C1: for every track UUID the fall events pushed to the host alternate
\* START, FINISH, START, ... beginning with START.
C1_FallEventsAlternate ==
    \A u \in DOMAIN fallLog :
        \A i \in 1..Len(fallLog[u]) :
            fallLog[u][i] = (IF i % 2 = 1 THEN "START" ELSE "FINISH")

\* a UUID that went through START, FINISH and START again
C1_Witness == \E u \in DOMAIN fallLog : Len(fallLog[u]) >= 3

\* C2 as stated: when the agent has been destroyed, every START has received
\* its FINISH.
C2_EveryStartFinished ==
    hostPc = "destroyed" =>
        \A u \in DOMAIN fallLog : Count(fallLog[u], "START") = Count(fallLog[u], "FINISH")

\* C2 amended: every UUID has as many FINISH as START events, or one START
\* more and is then still in m_activeFallTracks (also once the agent is
\* destroyed: the destructor pushes no packet).
C2_StartFinishedOrActive ==
    \A u \in DOMAIN fallLog :
        LET open == Count(fallLog[u], "START") - Count(fallLog[u], "FINISH")
        IN  /\ open \in {0, 1}
            /\ open = 1 => u \in DOMAIN m_activeFallTracks

\* the agent destroyed with a fall episode left open, and another one closed
C2_Witness ==
    /\ hostPc = "destroyed"
    /\ \E u \in DOMAIN fallLog : Count(fallLog[u], "START") > Count(fallLog[u], "FINISH")
    /\ \E u \in DOMAIN fallLog : Count(fallLog[u], "FINISH") = 1

\* C3 as stated, second half: the first frame of every run of consecutive
\* frames flagging a UUID pushes a START for it.
C3_FirstFallingFrameStarts ==
    [][Processed =>
         \A u \in FallingTracks(lastRun'.detections) \ FallingTracks(lastRun.detections) :
             HasPacket(lastRun', FallEvent(u, lastRun'.timestampUs, TRUE))]_vars

\* C3 amended: a UUID of m_activeFallTracks that the frame shows but does not
\* flag gets its FINISH in that frame, with the frame's timestamp, and leaves
\* m_activeFallTracks, whatever the grace period; a frame that flags a UUID
\* pushes a START for it if and only if the UUID was not in m_activeFallTracks,
\* so consecutive flagged frames push at most one START, at the first of them.
C3_SeenNotFallingFinishes ==
    [][Processed =>
         /\ \A u \in (DOMAIN m_activeFallTracks \cap SeenTracks(lastRun'.detections))
                         \ FallingTracks(lastRun'.detections) :
                /\ HasPacket(lastRun', FallEvent(u, lastRun'.timestampUs, FALSE))
                /\ u \notin DOMAIN m_activeFallTracks'
         /\ \A u \in FallingTracks(lastRun'.detections) :
                /\ HasPacket(lastRun', FallEvent(u, lastRun'.timestampUs, TRUE))
                      <=> u \notin DOMAIN m_activeFallTracks
                /\ u \in FallingTracks(lastRun.detections) =>
                      \A i \in StartPackets(lastRun') : lastRun'.packets[i].trackId # u]_vars

\* a FINISH pushed for a UUID the frame shows, before the grace period is over
C3_Witness ==
    \E i \in FinishPackets(lastRun) :
        LET u == lastRun.packets[i].trackId
        IN  /\ u \in SeenTracks(lastRun.detections)
            /\ lastRun.timestampUs - lastFallingUs[u] < m_config.fallFinishGraceUs
            /\ fallLog[u] = << "START", "FINISH" >>

\* C4: a UUID of m_activeFallTracks that is absent from the processed frame
\* gets a FINISH in that frame if and only if the frame's timestamp is at
\* least fallFinishGraceUs after the last frame that flagged it; otherwise it
\* stays in m_activeFallTracks.
C4_AbsentFinishesAfterGrace ==
    [][Processed =>
         \A u \in DOMAIN m_activeFallTracks \ SeenTracks(lastRun'.detections) :
             LET timedOut == lastRun'.timestampUs - lastFallingUs[u]
                                >= m_config.fallFinishGraceUs
             IN  /\ HasPacket(lastRun', FallEvent(u, lastRun'.timestampUs, FALSE)) <=> timedOut
                 /\ u \in DOMAIN m_activeFallTracks' <=> ~timedOut]_vars

\* an absent UUID kept through one frame and finished by the next, exactly
\* fallFinishGraceUs after the frame that flagged it
C4_Witness ==
    \E i \in FinishPackets(lastRun) :
        LET u == lastRun.packets[i].trackId
        IN  /\ u \notin SeenTracks(lastRun.detections)
            /\ lastRun.timestampUs - lastFallingUs[u] = m_config.fallFinishGraceUs
            /\ lastRun.id = 3

\* C5 as stated: a frame whose detector call failed or was short-circuited
\* pushes no packet at all.
C5_NoPacketWhileUnreachable ==
    (lastRun.id > 0 /\ ~lastRun.succeeded) => lastRun.packets = << >>

\* C5 amended: a frame whose detector call failed or was short-circuited
\* pushes no object packet and no START; it pushes a FINISH exactly for the
\* UUIDs whose grace period is over.
C5_OnlyGraceFinishWhileUnreachable ==
    [][(Processed /\ ~lastRun'.succeeded) =>
         /\ \A i \in 1..Len(lastRun'.packets) :
                /\ lastRun'.packets[i].type = "event"
                /\ ~lastRun'.packets[i].isActive
         /\ \A u \in DOMAIN m_activeFallTracks :
                HasPacket(lastRun', FallEvent(u, lastRun'.timestampUs, FALSE))
                    <=> lastRun'.timestampUs - lastFallingUs[u] >= m_config.fallFinishGraceUs]_vars

\* a failed call whose frame pushed a FINISH
C5_Witness ==
    /\ lastRun.called /\ ~lastRun.succeeded
    /\ FinishPackets(lastRun) # {}

\* ------------------------------------------------------------------ frame queue
QueueIds == [i \in 1..Len(m_frameQueue) |-> m_frameQueue[i].id]
Capacity == Max(1, m_config.maxQueueSize)

\* C6: the frame queue never holds more than max(1, maxQueueSize) jobs.
C6_QueueBounded == Len(m_frameQueue) <= Capacity

\* a full queue of capacity 2 that has dropped a job
C6_Witness ==
    /\ m_config.maxQueueSize = 2
    /\ Len(m_frameQueue) = 2
    /\ Len(burst) > 2

\* C7: after more than K = max(1, maxQueueSize) jobs were enqueued with no
\* dequeue in between, the jobs the worker takes from then on (while nothing
\* else is enqueued), followed by the jobs still queued, are exactly the last
\* K of them in enqueue order; each job taken is the one processFrameJob runs.
C7_LastKSurviveInOrder ==
    /\ Len(burst) > Capacity => drained \o QueueIds = LastK(burst, Capacity)
    /\ (drained # << >> /\ workerPc # "process") => lastRun.id = drained[Len(drained)]
    /\ (drained # << >> /\ workerPc = "process") => job.id = drained[Len(drained)]

\* capacity 2, four jobs enqueued in a row, the worker has drained the queue:
\* it processed the third and the fourth
C7_Witness ==
    /\ m_config.maxQueueSize = 2
    /\ Len(burst) = 4
    /\ m_frameQueue = << >>
    /\ drained = << 3, 4 >>
    /\ lastRun.id = 4

\* C8: the worker holds m_queueMutex only while it examines the queue, never
\* inside processFrameJob, so an enqueue that waits for the mutex while the
\* worker processes a job finds it free, and an enqueue that holds the mutex
\* completes without waiting for anything.
C8_IngressNeverWaitsForInference ==
    /\ m_queueMutex = "worker" <=> workerPc = "check"
    /\ m_queueMutex = "host" <=> hostPc \in { "enqueueLocked", "dtorLocked" }
    /\ (workerPc = "process" /\ hostPc = "enqueue") => ENABLED EnqueueLock
    /\ hostPc = "enqueueLocked" => ENABLED Enqueue

\* the host inside enqueueFrameJob, holding the mutex, while the worker is
\* inside processFrameJob
C8_Witness == workerPc = "process" /\ hostPc = "enqueueLocked"

\* ------------------------------------------------------------------ circuit breaker
Threshold == Max(1, m_config.detector.circuitFailureThreshold)

\* C9: with threshold T the breaker is closed while fewer than T service calls
\* in a row have failed and open once T have; a successful call restarts the
\* count.
C9_TripsOnTthFailure ==
    /\ failStreak <= Threshold
    /\ m_circuitOpen <=> failStreak = Threshold

\* threshold 3: a success, then three failures in a row; the third opened the
\* breaker
C9_Witness ==
    /\ m_config.detector.circuitFailureThreshold = 3
    /\ failStreak = 3
    /\ m_circuitOpen
    /\ lastRun.id = 4
    /\ lastRun.called

\* C10: a call to run() made while the breaker is open and now < retryAt
\* returns no detection, makes no request and leaves m_consecutiveFailures,
\* m_circuitOpen and m_circuitRetryAt unchanged.
C10_OpenBreakerShortCircuits ==
    [][(Processed /\ m_circuitOpen /\ clock' < m_circuitRetryAt) =>
         /\ lastRun'.detections = << >>
         /\ ~lastRun'.called
         /\ ~lastRun'.network
         /\ UNCHANGED << m_consecutiveFailures, m_circuitOpen, m_circuitRetryAt >>]_vars

\* threshold 3: three failures, then a fourth call inside the open interval
C10_Witness ==
    /\ m_config.detector.circuitFailureThreshold = 3
    /\ m_circuitOpen
    /\ lastRun.id = 4
    /\ ~lastRun.called
    /\ clock < m_circuitRetryAt

\* C11: a call to run() made while the breaker is open and now >= retryAt
\* attempts the service; the breaker was closed and the counter reset before
\* the attempt, so a success leaves the counter at 0 and a failure at 1, which
\* opens the breaker only if the threshold is 1.  In general the breaker opens
\* only on the T-th failure counted from the last reset or success.
C11_RetryAfterOpenInterval ==
    [][Processed =>
         /\ (m_circuitOpen /\ clock' >= m_circuitRetryAt) =>
                /\ lastRun'.called
                /\ lastRun'.response.kind # "none"
                /\ m_consecutiveFailures' = (IF lastRun'.succeeded THEN 0 ELSE 1)
                /\ m_circuitOpen' <=> (~lastRun'.succeeded /\ Threshold = 1)
         /\ (lastRun'.called /\ m_circuitOpen') =>
                /\ m_consecutiveFailures' = Threshold
                /\ failStreak' = Threshold]_vars

\* threshold 2: two failures opened the breaker, the third call fell into the
\* open interval, the fourth came after it, was attempted and failed: the
\* breaker is closed with one failure counted
C11_Witness ==
    /\ m_config.detector.circuitFailureThreshold = 2
    /\ lastRun.id = 4
    /\ lastRun.called /\ ~lastRun.succeeded
    /\ clock >= m_circuitRetryAt /\ m_circuitRetryAt > 0
    /\ ~m_circuitOpen
    /\ m_consecutiveFailures = 1

\* C12: after a call answered with HTTP 200 and a JSON array (empty, with all
\* its elements dropped, or with detections) m_consecutiveFailures is 0 and the
\* breaker is closed.
C12_SuccessResetsBreaker ==
    [][(Processed /\ lastRun'.response.kind = "ok") =>
         /\ lastRun'.succeeded
         /\ m_consecutiveFailures' = 0
         /\ ~m_circuitOpen']_vars

\* the breaker had opened; the retry was answered with an array whose only
\* element was dropped: no detection, counter 0, breaker closed
C12_Witness ==
    /\ lastRun.response = Ok(<< DroppedItem >>)
    /\ lastRun.detections = << >>
    /\ m_circuitRetryAt > 0 /\ clock >= m_circuitRetryAt
    /\ m_consecutiveFailures = 0
    /\ ~m_circuitOpen

C14_PacketTimestampsNonDecreasing ==
    [][(Processed /\ lastRun'.packets # << >> /\ emitted.n > 0) =>
         emitted.timestampUs <= lastRun'.timestampUs]_vars

\* C14 amended: a frame's packets carry a timestamp lower than that of earlier
\* packets only if the host pushed its timestamps out of order and the frame
\* bypassed the sampler's interval test, having timestampUs <= 0 or the
\* sampler being disabled (interval 0); every packet carries the timestamp of
\* the job it was made from.
C14_PacketOrderFollowsHost ==
    [][(Processed /\ lastRun'.packets # << >>) =>
         /\ \A i \in 1..Len(lastRun'.packets) :
                lastRun'.packets[i].timestampUs = job.timestampUs
         /\ emitted.n > 0 =>
                \/ emitted.timestampUs <= lastRun'.timestampUs
                \/ /\ ~sampled.ordered
                   /\ lastRun'.timestampUs <= 0 \/ m_minFrameIntervalUs <= 0]_vars

\* sampling enabled: two frames pushed packets one after the other, the
\* second with the higher timestamp, while a frame between them was rejected
C14_Witness ==
    /\ m_minFrameIntervalUs = 2
    /\ emitted.n = 2
    /\ emitted.before < emitted.timestampUs
    /\ lastRun.id = 3

\* ------------------------------------------------------------------ sampler
\* a step of pushUncompressedVideoFrame that called shouldSampleFrame
Sampled == sampled'.id # sampled.id

\* C20 as stated: the frame is accepted iff sampleFps <= 0, or ts <= 0, or
\* ts - lastAccepted >= round(10^6 / sampleFps), and every acceptance sets
\* lastAccepted to ts.
C20_AcceptIffIntervalElapsed ==
    [][Sampled =>
         LET ts == sampled'.timestampUs
         IN  /\ sampled'.accept <=>
                    \/ m_config.sampleFps <= 0
                    \/ ts <= 0
                    \/ ts - m_lastAcceptedTimestampUs
                           >= Llround(UsPerSecond, m_config.sampleFps)
             /\ sampled'.accept => m_lastAcceptedTimestampUs' = ts]_vars

\* C20 amended: the frame is accepted iff the interval is 0 (sampleFps <= 0, or
\* so large that the interval rounds to 0), or ts <= 0, or no positive
\* timestamp has been accepted yet (lastAccepted <= 0), or
\* ts - lastAccepted >= interval; an acceptance sets lastAccepted to ts except
\* that of a frame with ts <= 0 while the interval is positive, which leaves it
\* unchanged, as does a rejection.
C20_AcceptIffDue ==
    [][Sampled =>
         LET ts == sampled'.timestampUs
             interval == IF m_config.sampleFps > 0
                         THEN Llround(UsPerSecond, m_config.sampleFps) ELSE 0
         IN  /\ sampled'.accept <=>
                    \/ interval <= 0
                    \/ ts <= 0
                    \/ m_lastAcceptedTimestampUs <= 0
                    \/ ts - m_lastAcceptedTimestampUs >= interval
             /\ m_lastAcceptedTimestampUs' =
                    IF sampled'.accept /\ (interval <= 0 \/ ts > 0)
                    THEN ts ELSE m_lastAcceptedTimestampUs]_vars

\* interval 2: a frame at 1 accepted, a frame at 2 rejected, a frame at 3
\* accepted
C20_Witness ==
    /\ m_minFrameIntervalUs = 2
    /\ sampled = [id |-> 3, timestampUs |-> 3, accept |-> TRUE, kind |-> "ok",
                  ordered |-> TRUE]
    /\ m_lastAcceptedTimestampUs = 3
    /\ frameCount = 3
    /\ lastRun.id = 1 /\ lastRun.timestampUs = 1

\* ------------------------------------------------------------------ track registry
\* C15: a detection with an AI-supplied track id k is resolved to the key k;
\* if k was last sighted at most trackMapTtlUs before the frame, the detection
\* gets the UUID of that sighting; and no two keys of m_trackUuidByKey have the
\* same UUID.
C15_TrackedKeyKeepsUuid ==
    [][Processed =>
         /\ \A i \in 1..Len(lastRun'.detections) :
                LET d == lastRun'.detections[i]
                    k == d.aiTrackId.id
                IN  d.aiTrackId.has =>
                      /\ lastRun'.keys[i] = k
                      /\ (/\ k \in DOMAIN sightings
                          /\ lastRun'.timestampUs - sightings[k].timestampUs
                                <= m_config.trackMapTtlUs)
                            => d.trackId = sightings[k].uuid
         /\ \A k1, k2 \in DOMAIN m_trackUuidByKey' :
                k1 # k2 => m_trackUuidByKey'[k1] # m_trackUuidByKey'[k2]]_vars

\* track_id 7 in the frames at 1 and 3, a person without track_id in the frame
\* at 2: the third frame gives 7 the UUID of the first (the gap is exactly
\* trackMapTtlUs) while the other key is still alive
C15_Witness ==
    /\ lastRun.id = 3 /\ lastRun.timestampUs = 3
    /\ lastRun.keys = << 7 >>
    /\ lastRun.detections[1].trackId = 1
    /\ \E k \in DOMAIN m_trackUuidByKey : k < 0 /\ sightings[k].timestampUs = 2

\* m_syntheticTracks as detection i of the frame finds it: the tracks before
\* the frame, overwritten by the detections without track_id that precede i
SynBefore(run, syn, i) ==
    LET prior == { j \in 1..(i - 1) : ~run.detections[j].aiTrackId.has }
        last(k) == CHOOSE j \in prior :
                      /\ run.keys[j] = k
                      /\ \A j2 \in prior : run.keys[j2] = k => j2 <= j
    IN  [k \in DOMAIN syn \cup { run.keys[j] : j \in prior } |->
            IF \E j \in prior : run.keys[j] = k
            THEN [bbox |-> run.detections[last(k)].bbox, lastSeenUs |-> run.timestampUs]
            ELSE syn[k]]

\* C16: a detection without track_id gets the key of a synthetic track that
\* was seen within syntheticTrackTtlUs of the frame and overlaps it with
\* IoU > 0.3, no other such track overlapping it more; if there is none it gets
\* the next key of the counter, which is negative and not in m_syntheticTracks;
\* m_syntheticTracks[key] is then the detection's box and the frame's timestamp.
C16_SyntheticKeyByBestIou ==
    [][Processed =>
         \A i \in 1..Len(lastRun'.detections) :
            LET run == lastRun'
                d == run.detections[i]
                key == run.keys[i]
                syn == SynBefore(run, m_syntheticTracks, i)
                candidates ==
                    { k \in DOMAIN syn :
                        /\ run.timestampUs - syn[k].lastSeenUs <= m_config.syntheticTrackTtlUs
                        /\ IouAboveThreshold(Iou(syn[k].bbox, d.bbox)) }
                allocated == (DOMAIN syn) \ (DOMAIN m_syntheticTracks)
                later == { j \in (i + 1)..Len(run.detections) :
                             ~run.detections[j].aiTrackId.has /\ run.keys[j] = key }
            IN  ~d.aiTrackId.has =>
                  /\ candidates # {} =>
                        /\ key \in candidates
                        /\ \A c \in candidates :
                               ~IouGreater(Iou(syn[c].bbox, d.bbox), Iou(syn[key].bbox, d.bbox))
                  /\ candidates = {} =>
                        /\ key < 0
                        /\ key \notin DOMAIN syn
                        /\ key = m_nextSyntheticTrackId - Cardinality(allocated)
                  /\ later = {} =>
                        /\ key \in DOMAIN m_syntheticTracks'
                        /\ m_syntheticTracks'[key] =
                              [bbox |-> d.bbox, lastSeenUs |-> run.timestampUs]]_vars

\* two synthetic tracks alive, both overlapping the detection with IoU > 0.3:
\* it got the key -1 of the track in the wide box (IoU 2/3) and not the key -2
\* of the track in the left box (IoU 1/3), which the loop visits first
C16_Witness ==
    /\ lastRun.response = Ok(<< MiddleBox >>)
    /\ lastRun.keys = << -1 >>
    /\ -2 \in DOMAIN m_syntheticTracks
    /\ m_syntheticTracks[-2].bbox = [x |-> 0, y |-> 0, w |-> 2, h |-> 4]
    /\ m_syntheticTracks[-2].lastSeenUs = lastRun.timestampUs - 1
    /\ m_syntheticTracks[-1] = [bbox |-> [x |-> 1, y |-> 0, w |-> 2, h |-> 4],
                                 lastSeenUs |-> lastRun.timestampUs]

\* C19 as stated: when a frame arrives trackMapTtlUs or more after the last
\* processed one, nothing having been processed in between, the three maps are
\* empty.
C19_EmptyAfterQuietPeriod ==
    (/\ workerPc = "process"
     /\ lastRun.id > 0
     /\ job.timestampUs - lastRun.timestampUs >= m_config.trackMapTtlUs)
        => /\ m_syntheticTracks = EmptyMap
           /\ m_trackUuidByKey = EmptyMap
           /\ m_trackLastSeenUs = EmptyMap

\* C19 amended: the maps change only when a frame is processed; after a frame
\* with timestamp t, m_trackUuidByKey and m_trackLastSeenUs hold exactly the
\* keys last sighted at s with t - s <= trackMapTtlUs, and m_syntheticTracks
\* exactly the synthetic keys with t - s <= syntheticTrackTtlUs.
C19_ExpiredAtNextFrame ==
    LET t == lastRun.timestampUs
    IN  /\ DOMAIN m_trackUuidByKey = DOMAIN m_trackLastSeenUs
        /\ DOMAIN m_trackLastSeenUs =
              { k \in DOMAIN sightings :
                  t - sightings[k].timestampUs <= m_config.trackMapTtlUs }
        /\ \A k \in DOMAIN m_trackLastSeenUs :
              /\ m_trackLastSeenUs[k] = sightings[k].timestampUs
              /\ m_trackUuidByKey[k] = sightings[k].uuid
        /\ DOMAIN m_syntheticTracks =
              { k \in DOMAIN sightings :
                  /\ ~sightings[k].ai
                  /\ t - sightings[k].timestampUs <= m_config.syntheticTrackTtlUs }

\* a frame without detections processed 3 ticks (more than trackMapTtlUs)
\* after the frame that sighted two keys: the maps are empty again
C19_Witness ==
    /\ lastRun.id = 2
    /\ lastRun.response = Ok(<< >>)
    /\ Cardinality(DOMAIN sightings) = 2
    /\ \A k \in DOMAIN sightings : lastRun.timestampUs - sightings[k].timestampUs = 3
    /\ m_syntheticTracks = EmptyMap
    /\ m_trackUuidByKey = EmptyMap
    /\ m_trackLastSeenUs = EmptyMap

\* ------------------------------------------------------------------ track keys
\* C17 as stated: whatever track_id the service sends, a detection with a
\* track_id and a detection without one never have the same key, and so never
\* the same UUID: neither within a frame, nor by a key that was last sighted
\* the other way.
C17_SyntheticKeyNeverAiKey ==
    [][Processed =>
         \A i \in 1..Len(lastRun'.detections) :
            /\ \A j \in 1..Len(lastRun'.detections) :
                   (lastRun'.detections[i].aiTrackId.has
                       /\ ~lastRun'.detections[j].aiTrackId.has)
                     => /\ lastRun'.keys[i] # lastRun'.keys[j]
                        /\ lastRun'.detections[i].trackId # lastRun'.detections[j].trackId
            /\ lastRun'.keys[i] \in DOMAIN m_trackUuidByKey =>
                   sightings[lastRun'.keys[i]].ai = lastRun'.detections[i].aiTrackId.has]_vars

\* ------------------------------------------------------------------ synthetic-tracking scenario
\* two frames one tick apart, each with a detection without track_id, got one
\* UUID; the worker now holds the third frame, 2 ticks (more than
\* syntheticTrackTtlUs) after the second
SyntheticScenario ==
    /\ workerPc = "process"
    /\ job.id = 3 /\ lastRun.id = 2
    /\ emitted.n = 2
    /\ emitted.timestampUs - emitted.before = 1
    /\ job.timestampUs - emitted.timestampUs = 2
    /\ nextUuid = 1
    /\ lastRun.keys = << -1 >>
    /\ ~lastRun.detections[1].aiTrackId.has
    /\ m_nextSyntheticTrackId = -2
    /\ DOMAIN sightings = { -1 }

\* C18 as stated: the third frame, answered with one element that lies beyond
\* the right and bottom edges of the image, yields a detection with a new UUID.
C18_FarBoxGetsNewUuid ==
    [][(SyntheticScenario /\ Processed /\ lastRun'.response = Ok(<< FarBox >>)) =>
         /\ Len(lastRun'.detections) = 1
         /\ lastRun'.detections[1].trackId # 1]_vars

\* C18 amended: the element beyond the edges is clamped to width 0 and
\* dropped, so the third frame yields no detection, no packet and no UUID; an
\* element inside the image that overlaps no earlier one yields a detection
\* with a new key and a new UUID, pushed in an object packet.
C18_FarBoxDroppedInsideBoxNewUuid ==
    [][(SyntheticScenario /\ Processed) =>
         /\ lastRun'.response = Ok(<< FarBox >>) =>
                /\ lastRun'.detections = << >>
                /\ lastRun'.packets = << >>
                /\ nextUuid' = 1
         /\ lastRun'.response = Ok(<< RightBox >>) =>
                /\ Len(lastRun'.detections) = 1
                /\ lastRun'.keys = << -2 >>
                /\ lastRun'.detections[1].trackId = 2
                /\ Len(lastRun'.packets) = 1
                /\ lastRun'.packets[1].type = "object"
                /\ lastRun'.packets[1].items[1].trackId = 2]_vars

\* the scenario's third frame was answered with the element beyond the edges:
\* nothing was emitted and the only UUID is still the first one
C18_Witness ==
    /\ lastRun.id = 3
    /\ lastRun.response = Ok(<< FarBox >>)
    /\ lastRun.detections = << >>
    /\ emitted.n = 2
    /\ emitted.timestampUs - emitted.before = 1
    /\ lastRun.timestampUs - emitted.timestampUs = 2
    /\ nextUuid = 1
    /\ m_nextSyntheticTrackId = -2
    /\ sightings[-1].timestampUs = emitted.timestampUs /\ ~sightings[-1].ai
    /\ DOMAIN sightings = { -1 }


\* ------------------------------------------------------------------ sampling rate
\* the stream time delivered so far, and the starts of the whole seconds
\* [w, w + UsPerSecond) of it
Delivered == frameCount * stream.spacing
Windows == stream.spacing..(Delivered - UsPerSecond + 1)
AcceptedIn(w) == Cardinality({ a \in stream.accepted : w <= a /\ a < w + UsPerSecond })
\* the distance of two accepted frames: the first multiple of the spacing that
\* reaches the sampling interval
AcceptGap ==
    ((m_minFrameIntervalUs + stream.spacing - 1) \div stream.spacing) * stream.spacing

\* C21 as stated: of a uniform stream at a rate above sampleFps = F, the number
\* of frames accepted in any second of stream time differs from F by at most 1.
C21_RateWithinOneOfTarget ==
    stream.spacing > 0 =>
        \A w \in Windows : AcceptedIn(w) - m_config.sampleFps \in -1..1

\* C21 amended: of a uniform stream with frames s apart, s below the interval
\* I = 10^6 / F, the accepted frames are the first one and every G-th tick
\* after it, G the first multiple of s that is >= I (so I <= G < 2 I); the
\* number accepted in any second differs from 10^6 / G by less than 1.
C21_RateIsOnePerGap ==
    stream.spacing > 0 =>
        /\ stream.accepted =
              { t \in stream.spacing..Delivered : (t - stream.spacing) % AcceptGap = 0 }
        /\ m_minFrameIntervalUs <= AcceptGap /\ AcceptGap < 2 * m_minFrameIntervalUs
        /\ \A w \in Windows :
              /\ AcceptedIn(w) * AcceptGap > UsPerSecond - AcceptGap
              /\ AcceptedIn(w) * AcceptGap < UsPerSecond + AcceptGap

\* C21 witness: a second of a stream whose spacing does not divide the interval,
\* with fewer than F - 1 frames accepted
C21_Witness ==
    /\ stream.spacing > 0
    /\ m_minFrameIntervalUs % stream.spacing # 0
    /\ \E w \in Windows : AcceptedIn(w) < m_config.sampleFps - 1

\* ------------------------------------------------------------------ shutdown
\* C22: once the destructor has set m_stop, the worker leaves workerLoop and
\* join() returns, wherever the worker was (waiting, about to wait, in a job).
C22_StopLeadsToJoin == m_stop ~> (workerPc = "done" /\ hostPc = "destroyed")

\* C22 witness: m_stop is set and notify_all is about to be called while the
\* worker is blocked in the wait
C22_Witness == m_stop /\ hostPc = "notify" /\ workerPc = "waiting"

\* ------------------------------------------------------------------ two cameras
\* the members of the first DeviceAgent and of its ObjectDetector
AgentState ==
    << m_lastAcceptedTimestampUs, m_frameQueue, m_stop, m_consecutiveFailures,
       m_circuitOpen, m_circuitRetryAt, m_nextSyntheticTrackId, m_syntheticTracks,
       m_trackUuidByKey, m_trackLastSeenUs, m_activeFallTracks >>

\* C23: no step changes the members of both agents (a frame pushed to or
\* processed on one camera leaves the other's queue, track maps, fall tracks
\* and breaker as they were), and a track key known to both agents has a
\* different UUID in each.
C23_CamerasShareNoTrackState ==
    /\ [](\A k \in DOMAIN m_trackUuidByKey \cap DOMAIN cameraB.m_trackUuidByKey :
            m_trackUuidByKey[k] # cameraB.m_trackUuidByKey[k])
    /\ [][AgentState' = AgentState \/ cameraB' = cameraB]_vars

\* C23 witness: both cameras have seen track_id 7; the first one's breaker has
\* a failure counted and the second one's has none
C23_Witness ==
    /\ 7 \in DOMAIN m_trackUuidByKey \cap DOMAIN cameraB.m_trackUuidByKey
    /\ m_consecutiveFailures > 0
    /\ cameraB.m_consecutiveFailures = 0

\* ------------------------------------------------------------------ bounding boxes
ObjectPackets(run) == { i \in 1..Len(run.packets) : run.packets[i].type = "object" }
\* a response element that is a box of positive size starting inside the image
ValidAfterClamping(item) ==
    /\ item.w > 0 /\ item.h > 0
    /\ item.x < EncodedWidth /\ item.y < EncodedHeight
ValidItems(response) == { i \in 1..Len(response.items) : ValidAfterClamping(response.items[i]) }

\* C24: every item of an emitted object packet has x >= 0, y >= 0, w > 0,
\* h > 0, x + w <= 1 and y + h <= 1 (in units of the image's width and height);
\* a frame's object packet is emitted iff the service answered with at least
\* one box that is valid after clamping, and has one item for each such box.
C24_BoxesInsideImageEmitIffValid ==
    /\ \A i \in ObjectPackets(lastRun) : \A j \in 1..Len(lastRun.packets[i].items) :
          LET b == lastRun.packets[i].items[j].bbox
          IN  /\ b.x >= 0 /\ b.y >= 0 /\ b.w > 0 /\ b.h > 0
              /\ b.x + b.w <= EncodedWidth /\ b.y + b.h <= EncodedHeight
    /\ Cardinality(ObjectPackets(lastRun)) <= 1
    /\ ObjectPackets(lastRun) # {} <=>
          lastRun.response.kind = "ok" /\ ValidItems(lastRun.response) # {}
    /\ \A i \in ObjectPackets(lastRun) :
          Len(lastRun.packets[i].items) = Cardinality(ValidItems(lastRun.response))

\* C24 witness: a response with a box of no width, one reaching over the right
\* edge and one beyond the image gave a packet with the second box alone, cut
\* back to the edge
C24_Witness ==
    /\ lastRun.response = Ok(<< DroppedItem, OverEdgeBox, FarBox >>)
    /\ \E i \in ObjectPackets(lastRun) :
          /\ Len(lastRun.packets[i].items) = 1
          /\ lastRun.packets[i].items[1].bbox = [x |-> 3, y |-> 1, w |-> 1, h |-> 2]

\* ------------------------------------------------------------------ backpressure
\* the step of enqueueFrameJob that pushes the job, the queue being full
EnqueueOnFull ==
    /\ hostPc = "enqueueLocked" /\ hostPc' = "idle"
    /\ Len(m_frameQueue) >= Max(1, m_config.maxQueueSize)
\* a line asked of maybeLog now would be held back by the throttle
LogThrottled == ~m_lastLogAt.never /\ clock - m_lastLogAt.at < m_config.logThrottleMs

\* C25: an enqueue that finds the queue full drops the oldest job, writes a
\* warning diagnostic (unless the throttle holds it back), and the push
\* reports success to the host.
C25_DropOldestWarnSucceed ==
    [][EnqueueOnFull =>
         /\ m_frameQueue' = Append(Tail(m_frameQueue), pendingJob)
         /\ returned'
         /\ diagnostics' = diagnostics + 1 \/ LogThrottled]_vars

\* ------------------------------------------------------------------ malformed frames
\* C26: a frame dropped as malformed (no width or height, or an unsupported
\* pixel format) leaves the queue, the sampler's m_lastAcceptedTimestampUs and
\* the track and fall state as they were.
C26_MalformedFrameHasNoEffect ==
    [][(sampled'.id # sampled.id /\ sampled'.kind \in MalformedKinds) =>
         UNCHANGED << m_frameQueue, m_lastAcceptedTimestampUs, m_nextSyntheticTrackId,
                      m_syntheticTracks, m_trackUuidByKey, m_trackLastSeenUs,
                      m_activeFallTracks >>]_vars

\* ------------------------------------------------------------------ exceptions
\* C27: no call of the host into the core (obtaining the agent, pushing a
\* frame, destroying the agent) ends with an exception, whatever the service
\* URL and whatever the service does.
C27_NoExceptionReachesHost == hostPc # "threw"

\* ------------------------------------------------------------------ sample_company agent
\* C28: in the sample_company agent every metadata packet the worker pushes to
\* m_metadataQueue is eventually returned to the host, the host's pulls
\* draining the queue: whenever the queue holds packets, it is later empty
\* with every packet it held handed to the host.
C28_QueuedPacketsReachTheHost ==
    \A n \in 1..(4 * MvpFrames) :
        (Len(mvpAgent.m_metadataQueue) = n)
            ~> (mvpAgent.m_metadataQueue = << >> /\ Len(mvpAgent.returnedToHost) >= n)

\* the fall events among the packets the worker has produced
MvpFallEvents ==
    { i \in DOMAIN mvpAgent.m_metadataQueue : mvpAgent.m_metadataQueue[i].type = "fall" }

\* C29: in the sample_company agent the only fall events ever emitted are
\* START events (isActive = true), at most one per track id; no event with
\* isActive = false is emitted.
C29_FallEventsAreStartsOncePerTrack ==
    \A i \in MvpFallEvents :
        /\ mvpAgent.m_metadataQueue[i].isActive
        /\ \A j \in MvpFallEvents :
               mvpAgent.m_metadataQueue[j].trackId = mvpAgent.m_metadataQueue[i].trackId
                   => j = i

\* ------------------------------------------------------------------ job order
\* a job's identity is the number of the frame ingress built it from, so the
\* order of the identities is the order in which ingress enqueued the jobs
\* the jobs of the queue are in enqueue order, all of them enqueued after the
\* job the worker holds, which is not older than the last job processed
QueueInEnqueueOrder ==
    /\ \A i \in DOMAIN m_frameQueue :
          /\ job.id < m_frameQueue[i].id
          /\ m_frameQueue[i].id <= frameCount
          /\ \A j \in DOMAIN m_frameQueue : i < j => m_frameQueue[i].id < m_frameQueue[j].id
    /\ lastRun.id <= job.id

\* the worker takes a job only by removing the front of the queue
DequeueTakesFront ==
    job' # job => /\ m_frameQueue # << >>
                  /\ job' = Head(m_frameQueue)
                  /\ m_frameQueue' = Tail(m_frameQueue)

\* any other change of the queue is ingress appending the job it built, newer
\* than every job queued, behind what it keeps of the queue
OnlyIngressEnqueues ==
    (m_frameQueue' # m_frameQueue /\ job' = job)
        => /\ hostPc = "enqueueLocked"
           /\ \A i \in DOMAIN m_frameQueue : m_frameQueue[i].id < pendingJob.id
           /\ \E k \in 0..Len(m_frameQueue) :
                 m_frameQueue' = Append(SubSeq(m_frameQueue, k + 1, Len(m_frameQueue)),
                                        pendingJob)

\* processFrameJob runs on the job the worker took, which is newer than every
\* job processed before
ProcessedOnceInOrder ==
    (workerPc = "process" /\ workerPc' # "process")
        => /\ lastRun.id < job.id
           /\ lastRun'.id = job.id

\* C30: under any interleaving of ingress and worker every job the worker
\* processes was enqueued by ingress, no job is processed twice, jobs are
\* processed in the order they were enqueued, and the worker always removes
\* the front job of the queue.
C30_JobsProcessedOnceInEnqueueOrder ==
    /\ [](QueueInEnqueueOrder)
    /\ [][DequeueTakesFront /\ OnlyIngressEnqueues /\ ProcessedOnceInOrder]_vars

\* ingress holds the mutex to enqueue while the worker processes a job, the
\* job before it having been dropped unprocessed
C30_Witness ==
    /\ hostPc = "enqueueLocked"
    /\ workerPc = "process"
    /\ lastRun.id >= 1
    /\ job.id > lastRun.id + 1

\* ------------------------------------------------------------------ worker exit
\* once m_stop is set a job leaves the queue only by the worker taking it
StoppedQueueOnlyDrains ==
    (m_stop /\ m_frameQueue' # m_frameQueue)
        => /\ job' = Head(m_frameQueue)
           /\ m_frameQueue' = Tail(m_frameQueue)
           /\ workerPc' = "process"

\* C31: the worker leaves its loop only with m_stop set and the queue empty,
\* never while m_stop is false; every job in the queue when m_stop is set is
\* dequeued and processed (detector call, emission, cleanup) before the worker
\* terminates.
C31_WorkerExitsStoppedAndDrained ==
    /\ [](workerPc = "done" => m_stop /\ m_frameQueue = << >> /\ lastRun.id = job.id)
    /\ [][StoppedQueueOnlyDrains]_vars
    /\ \A id \in 1..QueueFrames :
          (m_stop /\ \E i \in DOMAIN m_frameQueue : m_frameQueue[i].id = id)
              ~> (lastRun.id = id /\ workerPc # "done")

\* m_stop is set with two jobs in the queue and the worker about to test
\* its exit condition
C31_Witness == m_stop /\ Len(m_frameQueue) = 2 /\ workerPc = "check"

\* ------------------------------------------------------------------ shared state
\* the positions at which a thread's code reads or writes m_frameQueue or
\* m_stop: the host in enqueueFrameJob and the destructor's block, the worker
\* in workerLoop's block (wait predicate, exit test, dequeue)
HostTouchesQueue == hostPc \in { "enqueueLocked", "dtorLocked" }
WorkerTouchesQueue == workerPc = "check"

\* the members only pushUncompressedVideoFrame uses, and the members only
\* processFrameJob uses
SamplerState == << m_lastAcceptedTimestampUs, m_lastLogAt >>
WorkerState == << m_nextSyntheticTrackId, m_syntheticTracks, m_trackUuidByKey,
                  m_trackLastSeenUs, m_activeFallTracks, m_consecutiveFailures,
                  m_circuitOpen, m_circuitRetryAt >>

\* a write of the queue or the stop flag is made by the thread holding the mutex
QueueWrittenUnderMutex ==
    queueVars' # queueVars
        => \/ m_queueMutex = "host" /\ HostTouchesQueue /\ hostPc' # hostPc /\ job' = job
           \/ m_queueMutex = "worker" /\ WorkerTouchesQueue /\ workerPc' = "process"
                  /\ hostPc' = hostPc

\* the sampler state is written by a step of pushUncompressedVideoFrame only
SamplerWrittenByIngress ==
    SamplerState' # SamplerState
        => /\ hostPc = "idle" /\ frameCount' = frameCount + 1
           /\ workerPc' = workerPc /\ job' = job /\ WorkerState' = WorkerState

\* track, fall and breaker state are written by processFrameJob only
WorkerStateWrittenByWorker ==
    WorkerState' # WorkerState
        => /\ workerPc = "process" /\ workerPc' # "process"
           /\ hostPc' = hostPc /\ frameCount' = frameCount /\ SamplerState' = SamplerState
           /\ queueVars' = queueVars

\* C32: the frame queue and the stop flag are read and written only with the
\* queue mutex held, by ingress and by the worker; the sampler state is
\* touched only by the ingress thread; track, fall and circuit-breaker state
\* only by the worker thread.
C32_NoUnlockedSharedAccess ==
    /\ [](HostTouchesQueue => m_queueMutex = "host")
    /\ [](WorkerTouchesQueue => m_queueMutex = "worker")
    /\ [][QueueWrittenUnderMutex /\ SamplerWrittenByIngress /\ WorkerStateWrittenByWorker]_vars

\* ingress holds the mutex to enqueue while the worker, come back from a job
\* that left track state, waits for the mutex
C32_Witness ==
    /\ hostPc = "enqueueLocked"
    /\ workerPc = "lock"
    /\ m_trackUuidByKey # EmptyMap
    /\ m_lastAcceptedTimestampUs > 0

\* ------------------------------------------------------------------ fall entries
\* the last fall event pushed for a UUID
LastFallEvent(log, u) ==
    IF u \in DOMAIN log /\ log[u] # << >> THEN log[u][Len(log[u])] ELSE "none"

\* the UUIDs for which the step pushes a FINISH event
FinishedInStep ==
    { u \in DOMAIN fallLog' :
        /\ LastFallEvent(fallLog', u) = "FINISH"
        /\ (u \notin DOMAIN fallLog \/ fallLog'[u] # fallLog[u]) }

\* C33: after each processed frame a UUID is in m_activeFallTracks if and only
\* if the last fall event emitted for it is a START; the step that emits a
\* FINISH removes the entry.
C33_ActiveIffLastEventStart ==
    /\ [](\A u \in DOMAIN fallLog \cup DOMAIN m_activeFallTracks :
              u \in DOMAIN m_activeFallTracks <=> LastFallEvent(fallLog, u) = "START")
    /\ [][\A u \in FinishedInStep :
              u \in DOMAIN m_activeFallTracks /\ u \notin DOMAIN m_activeFallTracks']_vars

\* one track has started and finished and has no entry, another is in its fall
C33_Witness ==
    /\ \E u \in DOMAIN fallLog :
          /\ fallLog[u] = << "START", "FINISH" >>
          /\ u \notin DOMAIN m_activeFallTracks
    /\ \E v \in DOMAIN m_activeFallTracks : LastFallEvent(fallLog, v) = "START"

\* ------------------------------------------------------------------ track expiry
\* what remains after cleanupTrackState(lastRun.timestampUs) is within its TTL,
\* and the UUID map and the last-seen map have the same keys
RemainingWithinTtl ==
    /\ \A k \in DOMAIN m_syntheticTracks :
          lastRun.timestampUs - m_syntheticTracks[k].lastSeenUs
              <= m_config.syntheticTrackTtlUs
    /\ \A k \in DOMAIN m_trackLastSeenUs :
          lastRun.timestampUs - m_trackLastSeenUs[k] <= m_config.trackMapTtlUs
    /\ DOMAIN m_trackUuidByKey = DOMAIN m_trackLastSeenUs

\* an entry that a processed frame removes was older than its TTL at that frame
RemovedBeyondTtl ==
    /\ \A k \in DOMAIN m_syntheticTracks \ DOMAIN m_syntheticTracks' :
          lastRun'.timestampUs - m_syntheticTracks[k].lastSeenUs
              > m_config.syntheticTrackTtlUs
    /\ \A k \in DOMAIN m_trackLastSeenUs \ DOMAIN m_trackLastSeenUs' :
          /\ lastRun'.timestampUs - m_trackLastSeenUs[k] > m_config.trackMapTtlUs
          /\ k \notin DOMAIN m_trackUuidByKey'
    /\ \A k \in DOMAIN m_trackUuidByKey \ DOMAIN m_trackUuidByKey' :
          k \notin DOMAIN m_trackLastSeenUs'

\* C34: after cleanupTrackState(now) every remaining synthetic track has
\* now - lastSeenUs <= syntheticTrackTtlUs and every remaining key of
\* m_trackUuidByKey / m_trackLastSeenUs has now - lastSeenUs <= trackMapTtlUs;
\* an entry is removed only when its age strictly exceeds its TTL, a UUID
\* mapping together with its last-seen entry.
C34_CleanupKeepsExactlyWithinTtl ==
    [](RemainingWithinTtl) /\ [][RemovedBeyondTtl]_vars

\* a key whose age equals trackMapTtlUs is kept, its synthetic track gone,
\* and some older mapping has been removed
C34_Witness ==
    /\ \E k \in DOMAIN m_trackLastSeenUs :
          /\ lastRun.timestampUs - m_trackLastSeenUs[k] = m_config.trackMapTtlUs
          /\ k < 0
          /\ k \notin DOMAIN m_syntheticTracks
    /\ nextUuid > Cardinality(DOMAIN m_trackUuidByKey)

\* ------------------------------------------------------------------ backward timestamps
\* C35: when the host's timestamps move backwards the sampler suppresses at
\* most one sample interval of frames: once a frame has been rejected, a frame
\* that follows it by one interval of stream time or more is accepted,
\* whatever the size of the backward jump before them.
C35_SuppressionBoundedByInterval ==
    [][(/\ Sampled
        /\ sampled.id # 0
        /\ ~sampled.accept
        /\ sampled'.timestampUs - sampled.timestampUs >= m_minFrameIntervalUs)
           => sampled'.accept]_vars

\* ------------------------------------------------------------------ breaker state
\* a run that leaves the breaker open either made the failed call that opened
\* it, which set m_circuitRetryAt one open interval after its clock reading,
\* or found it open and left m_circuitRetryAt alone
RetryAtSetByOpeningFailure ==
    m_circuitOpen'
        => IF Processed /\ lastRun'.called
           THEN m_circuitRetryAt' = clock' + Max(1, m_config.detector.circuitOpenMs)
           ELSE m_circuitOpen /\ m_circuitRetryAt' = m_circuitRetryAt

\* C36: between calls of run() the breaker is open if and only if
\* m_consecutiveFailures >= max(1, circuitFailureThreshold); an open breaker
\* has the m_circuitRetryAt set by the failure that opened it.
C36_OpenIffThresholdReached ==
    /\ [](m_circuitOpen <=> m_consecutiveFailures >= Threshold)
    /\ [][RetryAtSetByOpeningFailure]_vars

\* a threshold of two or more reached, the breaker open, and the last run
\* short-circuited
C36_Witness ==
    /\ Threshold >= 2
    /\ m_circuitOpen
    /\ m_consecutiveFailures = Threshold
    /\ lastRun.id > 0 /\ ~lastRun.called

\* ------------------------------------------------------------------ TTL order
\* C37: a detection without track_id that is matched to an existing synthetic
\* track gets the UUID of the previous detection of that track, whatever the
\* configured syntheticTrackTtlUs and trackMapTtlUs; after every processed
\* frame each key of m_syntheticTracks has an entry in m_trackUuidByKey.
C37_ReusedSyntheticKeyKeepsUuid ==
    /\ [](DOMAIN m_syntheticTracks \subseteq DOMAIN m_trackUuidByKey)
    /\ [][Processed =>
            \A i \in 1..Len(lastRun'.detections) :
               (/\ ~lastRun'.detections[i].aiTrackId.has
                /\ lastRun'.keys[i] \in DOMAIN m_syntheticTracks
                /\ lastRun'.keys[i] \in DOMAIN sightings)
                  => lastRun'.detections[i].trackId = sightings[lastRun'.keys[i]].uuid]_vars

\* ------------------------------------------------------------------ keys within a frame
\* C38: within one frame two different detections without track_id get
\* different synthetic keys, and no object packet has two items with the same
\* track UUID.
C38_DistinctKeysWithinFrame ==
    [][Processed =>
         /\ \A i, j \in 1..Len(lastRun'.detections) :
               (/\ i # j
                /\ ~lastRun'.detections[i].aiTrackId.has
                /\ ~lastRun'.detections[j].aiTrackId.has)
                  => lastRun'.keys[i] # lastRun'.keys[j]
         /\ \A p \in ObjectPackets(lastRun') :
               \A a, b \in 1..Len(lastRun'.packets[p].items) :
                  a # b => lastRun'.packets[p].items[a].trackId
                               # lastRun'.packets[p].items[b].trackId]_vars

\* ------------------------------------------------------------------ synthetic keys
\* the synthetic keys allocated so far, those removed since included
SyntheticKeysSoFar == { k \in DOMAIN sightings : ~sightings[k].ai }

\* the counter is negative and below every synthetic key, stored or removed
CounterBelowEveryKey ==
    /\ m_nextSyntheticTrackId <= -1
    /\ \A k \in DOMAIN m_syntheticTracks \cup SyntheticKeysSoFar :
          k < 0 /\ m_nextSyntheticTrackId < k

\* the keys a step adds to m_syntheticTracks are the values the counter passed
\* through, one per allocation, none of them a synthetic key allocated before
AllocationsTakeTheCounter ==
    /\ m_nextSyntheticTrackId' <= m_nextSyntheticTrackId
    /\ DOMAIN m_syntheticTracks' \ DOMAIN m_syntheticTracks
           = (m_nextSyntheticTrackId' + 1)..m_nextSyntheticTrackId
    /\ \A k \in DOMAIN m_syntheticTracks' \ DOMAIN m_syntheticTracks :
          k \notin SyntheticKeysSoFar

\* C39: every key stored in m_syntheticTracks is negative,
\* m_nextSyntheticTrackId is below every synthetic key allocated so far and
\* decreases by one with each allocation, so a key removed by cleanup is never
\* allocated again.
C39_SyntheticKeysNeverReused ==
    [](CounterBelowEveryKey) /\ [][AllocationsTakeTheCounter]_vars

\* three keys allocated, the first removed by cleanup, the second stored
C39_Witness ==
    /\ m_nextSyntheticTrackId <= -4
    /\ -1 \notin DOMAIN m_syntheticTracks
    /\ -2 \in DOMAIN m_syntheticTracks

\* ------------------------------------------------------------------ a fall ends
\* the UUIDs and timestamps a run can show
FallUuids == 1..MaxFrames
FallTimes == 1..MaxFrames

\* a frame taken from the host that the worker has not processed yet and whose
\* timestamp is at least fallFinishGraceUs after t
FramePendingAfterGrace(t) ==
    \/ /\ workerPc = "process"
       /\ job.timestampUs - t >= m_config.fallFinishGraceUs
    \/ \E i \in 1..Len(m_frameQueue) :
          m_frameQueue[i].timestampUs - t >= m_config.fallFinishGraceUs

\* u is removed with a FINISH as its last event
FallFinished(u) ==
    u \notin DOMAIN m_activeFallTracks /\ LastFallEvent(fallLog, u) = "FINISH"

\* the processed frames have strictly increasing timestamps
TimestampsIncrease == Processed => lastRun'.timestampUs > lastRun.timestampUs

\* the frame that is processed at least fallFinishGraceUs after u's last
\* falling frame, not flagging u, removes u and pushes its FINISH
FinishedAtGraceFrame ==
    Processed =>
        \A u \in DOMAIN m_activeFallTracks :
            (/\ u \notin FallingTracks(lastRun'.detections)
             /\ lastRun'.timestampUs - lastFallingUs[u] >= m_config.fallFinishGraceUs)
               => /\ u \notin DOMAIN m_activeFallTracks'
                  /\ HasPacket(lastRun', FallEvent(u, lastRun'.timestampUs, FALSE))

\* no fall outlives the last processed frame by the grace period
NoFallBeyondGrace ==
    \A u \in DOMAIN m_activeFallTracks :
        lastRun.timestampUs - lastFallingUs[u] < m_config.fallFinishGraceUs

\* C40: with processed timestamps strictly increasing, a UUID in
\* m_activeFallTracks that no later frame flags is removed with a FINISH event
\* once a frame at least fallFinishGraceUs after its last falling frame is
\* processed, and such a frame the worker holds or finds queued is processed
\* eventually: the fall ends, or the UUID is flagged again.
C40_FallEventuallyFinishes ==
    /\ \A u \in FallUuids : \A t \in FallTimes :
          (/\ u \in DOMAIN m_activeFallTracks
           /\ lastFallingUs[u] = t
           /\ FramePendingAfterGrace(t))
             ~> (\/ FallFinished(u)
                 \/ u \in DOMAIN lastFallingUs /\ lastFallingUs[u] # t)
    /\ [][TimestampsIncrease /\ FinishedAtGraceFrame]_vars
    /\ []NoFallBeyondGrace

\* a fall flagged in the first frame, unflagged and unseen since, finished by
\* the third frame, the first to come fallFinishGraceUs after it
C40_Witness ==
    /\ lastRun.id = 3
    /\ lastRun.response.kind # "ok"
    /\ \E u \in DOMAIN fallLog :
          /\ FallFinished(u)
          /\ fallLog[u] = << "START", "FINISH" >>
          /\ lastRun.timestampUs - lastFallingUs[u] = m_config.fallFinishGraceUs
          /\ HasPacket(lastRun, FallEvent(u, lastRun.timestampUs, FALSE))

====
